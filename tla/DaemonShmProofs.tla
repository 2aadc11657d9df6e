-------------------------- MODULE DaemonShmProofs ---------------------------
(***************************************************************************)
(* Theorems about DaemonShm, for any number of daemons, of clients and of  *)
(* updates: what lock-free readers can rely on, and what a daemon's states *)
(* and files say.                                                          *)
(***************************************************************************)
EXTENDS DaemonShm, TLAPS

ZeroSections == [f \in Fields |-> Interval(0, 0)]

-----------------------------------------------------------------------------
\* The inductive invariant, daemon by daemon and client by client.

\* Nothing has been counted or published before the first snapshot.
Fresh(d) ==
    pc[d] \in {"off"} \cup Setup =>
        /\ round[d] = 0 /\ begin[d] = 0 /\ end[d] = 0
        /\ states[d] = Zero /\ sections[d] = ZeroSections

\* The stamps enclose what the sections hold; what is not subscribed to stays
\* as the segment was handed out.
Stamps(d) ==
    /\ end[d] <= begin[d] /\ begin[d] <= round[d]
    /\ \A f \in Subscribed(d) : end[d] <= sections[d][f].to /\ sections[d][f].to <= begin[d]
    /\ \A f \in Fields \ Subscribed(d) : sections[d][f] = Interval(0, 0)

\* How far an update has come.
Progress(d) ==
    /\ pc[d] \in Updating => begin[d] = round[d]
    /\ pc[d] \in {"core", "memory", "qpi", "end"} =>
           states[d].after = round[d] /\ states[d].timeAfter = round[d]
    /\ pc[d] \in {"memory", "qpi", "end"} /\ "core" \in subscribers_[d] =>
           sections[d].core.to = round[d]
    /\ pc[d] \in {"qpi", "end"} /\ "memory" \in subscribers_[d] =>
           sections[d].memory.to = round[d] /\ sections[d].memoryTime.to = round[d]
    /\ pc[d] = "end" /\ "qpi" \in subscribers_[d] =>
           sections[d].qpi.to = round[d] /\ sections[d].qpiUtilization.to = round[d]

\* In difference mode a section was computed up to where the next one starts.
Tiles(d) ==
    mode_[d] = "difference" =>
        /\ sections[d].core.to # 0 =>
             /\ pc[d] \in {"sleep", "update", "core"} => states[d].before = sections[d].core.to
             /\ pc[d] \in {"memory", "qpi", "end"} => states[d].after = sections[d].core.to
        /\ sections[d].memory.to # 0 =>
             /\ pc[d] \in {"sleep", "update", "core", "memory"} =>
                    states[d].uncoreBefore = sections[d].memory.to
             /\ pc[d] \in {"qpi", "end"} => states[d].uncoreAfter = sections[d].memory.to
        /\ sections[d].qpi.to # 0 =>
             /\ pc[d] \in {"sleep", "update", "core", "memory", "qpi"} =>
                    states[d].before = sections[d].qpi.to
             /\ pc[d] = "end" => states[d].after = sections[d].qpi.to

\* In difference mode the uncore states and the collection times move together.
Rates(d) ==
    mode_[d] = "difference" =>
        /\ sections[d].memory.from # 0 => sections[d].memory = sections[d].memoryTime
        /\ pc[d] \in {"sleep", "update", "core", "memory"} /\ states[d].uncoreBefore # 0 =>
               states[d].timeBefore = states[d].uncoreBefore
        /\ pc[d] \in {"qpi", "end"} /\ states[d].uncoreAfter # 0 =>
               states[d].timeAfter = states[d].uncoreAfter
        /\ "memory" \notin subscribers_[d] =>
               states[d].uncoreBefore = 0 /\ states[d].uncoreAfter = 0

\* In absolute mode the states the values start from stay.
Origin(d) ==
    mode_[d] = "absolute" =>
        /\ pc[d] \in Serving => states[d].before = 1
        /\ states[d].uncoreBefore = 0
        /\ sections[d].core.to # 0 => sections[d].core.from = 1
        /\ sections[d].memory.from = 0
        /\ sections[d].qpi.to # 0 => sections[d].qpi.from = 1

\* What a daemon has done to its segment and to the file.
Files(d) ==
    /\ pc[d] \in {"unlink", "exited"} => segment[d] = "removed"
    /\ pc[d] = "exited" => idFile # d
    /\ pc[d] = "off" => idFile # d
    /\ ~overlap /\ pc[d] = "write" => linked[d]
    /\ ~overlap /\ pc[d] \in {"attach", "program"} \cup Serving => idFile = d

Data(d) == Fresh(d) /\ Stamps(d) /\ Progress(d) /\ Tiles(d) /\ Rates(d) /\ Origin(d)

\* A client is told a stamp that was published, and takes what came with it.
ClientInv(c) ==
    /\ cpc[c] \notin {"start", "gone"} => pc[target[c]] # "off"
    /\ AttachedTo(c) => lastUpdatedClientTsc_[c] <= end[target[c]]
    /\ \A f \in Taken(c) : /\ lastUpdatedClientTsc_[c] <= copy[c][f].to
                           /\ copy[c][f].to <= begin[target[c]]

Alone == ~overlap => \A d, e \in Daemons : pc[d] \in Alive /\ pc[e] \in Alive => d = e

IInv ==
    /\ TypeOK
    /\ \A d \in Daemons : Data(d) /\ Files(d)
    /\ \A c \in Clients : ClientInv(c)
    /\ Alone

-----------------------------------------------------------------------------
LEMMA SubscribedFields ==
    ASSUME TypeOK, NEW d \in Daemons
    PROVE  /\ subscribers_[d] \subseteq {"core", "memory", "qpi"}
           /\ "core" \in Subscribed(d) <=> "core" \in subscribers_[d]
           /\ "memory" \in Subscribed(d) <=> "memory" \in subscribers_[d]
           /\ "memoryTime" \in Subscribed(d) <=> "memory" \in subscribers_[d]
           /\ "qpi" \in Subscribed(d) <=> "qpi" \in subscribers_[d]
           /\ "qpiUtilization" \in Subscribed(d) <=> "qpi" \in subscribers_[d]
           /\ Subscribed(d) \subseteq Fields
  <1>1. subscribers_[d] \subseteq {"core", "memory", "qpi"}
    BY SubscriptionAssumption DEF TypeOK
  <1>2. /\ FieldsOf("core") = {"core"} /\ FieldsOf("memory") = {"memory", "memoryTime"}
        /\ FieldsOf("qpi") = {"qpi", "qpiUtilization"}
    BY DEF FieldsOf
  <1>3. \A f : f \in Subscribed(d) <=> \E class \in subscribers_[d] : f \in FieldsOf(class)
    BY DEF Subscribed
  <1> QED
    BY <1>1, <1>2, <1>3 DEF Fields

\* The states after an update, in either mode.
LEMMA NextStatesLemma ==
    ASSUME NEW s \in States, NEW mode, NEW subscribers
    PROVE  LET n == NextStates(s, mode, subscribers)
           IN  /\ n \in States /\ n.timeBefore = s.timeAfter
               /\ mode = "difference" =>
                    n.before = s.after /\ n.uncoreBefore = s.uncoreAfter
                    /\ n.uncoreAfter = s.uncoreBefore
               /\ mode # "difference" =>
                    n.before = s.before /\ n.uncoreBefore = s.uncoreBefore
                    /\ n.uncoreAfter = s.uncoreAfter
  BY DEF NextStates, SwapPCMBeforeAfterState, States, Snapshots

LEMMA InitIInv == Init => IInv
  <1> SUFFICES ASSUME Init PROVE IInv
    OBVIOUS
  <1>1. TypeOK
    BY ModeAssumption DEF Init, TypeOK, States, Zero, Snapshots, Intervals, Interval
  <1>2. ASSUME NEW d \in Daemons PROVE Data(d) /\ Files(d)
    <2>1. \A f \in Fields : sections[d][f] = Interval(0, 0)
      BY DEF Init
    <2>2. /\ sections[d].core.to = 0 /\ sections[d].memory.to = 0 /\ sections[d].qpi.to = 0
          /\ sections[d].memory.from = 0
      BY <2>1 DEF Fields, Interval
    <2>3. Stamps(d)
      BY <2>1, <1>1, SubscribedFields DEF Stamps, Init, Interval
    <2>4. Fresh(d) /\ Progress(d) /\ Tiles(d) /\ Rates(d) /\ Origin(d)
      BY <2>2 DEF Fresh, Progress, Tiles, Rates, Origin, Init, ZeroSections, Zero,
                  Updating, Serving
    <2>5. Files(d)
      BY NameAssumption DEF Files, Init, Serving, Updating
    <2> QED
      BY <2>3, <2>4, <2>5 DEF Data
  <1>3. ASSUME NEW c \in Clients PROVE ClientInv(c)
    BY DEF ClientInv, Init, AttachedTo, Taken
  <1>4. Alone
    BY DEF Alone, Init, Alive, Setup, Serving, Updating
  <1> QED
    BY <1>1, <1>2, <1>3, <1>4 DEF IInv

-----------------------------------------------------------------------------
\* What every daemon step leaves: the rest of the invariant follows from what
\* it does to its own data and to the file.

\* What a step of d does to what others see: nothing but the file and overlap.
OnlyOf(d) ==
    /\ \A e \in Daemons \ {d} :
          /\ pc'[e] = pc[e] /\ mode_'[e] = mode_[e] /\ subscribers_'[e] = subscribers_[e]
          /\ round'[e] = round[e] /\ states'[e] = states[e] /\ segment'[e] = segment[e]
          /\ begin'[e] = begin[e] /\ end'[e] = end[e] /\ sections'[e] = sections[e]
    /\ UNCHANGED clientVars

LEMMA OthersData ==
    ASSUME NEW d, OnlyOf(d), NEW e \in Daemons \ {d}, Data(e)
    PROVE  Data(e)'
  <1>1. /\ pc'[e] = pc[e] /\ mode_'[e] = mode_[e] /\ subscribers_'[e] = subscribers_[e]
        /\ round'[e] = round[e] /\ states'[e] = states[e]
        /\ begin'[e] = begin[e] /\ end'[e] = end[e] /\ sections'[e] = sections[e]
    BY DEF OnlyOf
  <1>2. Subscribed(e)' = Subscribed(e)
    BY <1>1 DEF Subscribed
  <1> QED
    BY <1>1, <1>2 DEF Data, Fresh, Stamps, Progress, Tiles, Rates, Origin

\* Clients stay right when stamps only grow and no subscription changes.
LEMMA ClientsStay ==
    ASSUME IInv, TypeOK', NEW d \in Daemons, OnlyOf(d),
           pc'[d] # "off",
           begin[d] <= begin'[d], end[d] <= end'[d],
           pc[d] = "off" \/ subscribers_'[d] = subscribers_[d],
           NEW c \in Clients
    PROVE  ClientInv(c)'
  <1>1. ClientInv(c)
    BY DEF IInv
  <1>2. cpc' = cpc /\ target' = target /\ lastUpdatedClientTsc_' = lastUpdatedClientTsc_
        /\ copy' = copy
    BY DEF OnlyOf, clientVars
  <1>3. cpc[c] \notin {"start", "gone"} => target[c] \in Daemons
    BY DEF IInv, TypeOK
  <1>4. CASE cpc[c] \in {"start", "gone"}
    BY <1>2, <1>4 DEF ClientInv, AttachedTo, Taken
  <1>5. CASE cpc[c] \notin {"start", "gone"}
    <2> DEFINE e == target[c]
    <2>1. e \in Daemons /\ pc[e] # "off"
      BY <1>1, <1>3, <1>5 DEF ClientInv
    <2>2. /\ pc'[e] # "off" /\ begin[e] <= begin'[e] /\ end[e] <= end'[e]
          /\ subscribers_'[e] = subscribers_[e]
      BY <2>1 DEF OnlyOf, IInv, TypeOK, Snapshots
    <2>3. Taken(c)' = Taken(c)
      BY <1>2, <2>2 DEF Taken, Subscribed
    <2>4. AttachedTo(c)' <=> AttachedTo(c)
      BY <1>2 DEF AttachedTo
    <2>5. /\ lastUpdatedClientTsc_[c] \in Nat /\ begin[e] \in Nat /\ end[e] \in Nat
          /\ begin'[e] \in Nat /\ end'[e] \in Nat
          /\ \A f \in Fields : copy[c][f].to \in Nat
      BY <2>1 DEF IInv, TypeOK, Snapshots, Intervals
    <2>6. \A f \in Taken(c) : f \in Fields
      BY DEF Taken
    <2> HIDE DEF e
    <2>7. target[c] = e /\ target'[c] = e
      BY <1>2 DEF e
    <2> QED
      BY <1>1, <1>2, <2>2, <2>3, <2>4, <2>5, <2>6, <2>7 DEF ClientInv
  <1> QED
    BY <1>4, <1>5

-----------------------------------------------------------------------------
\* The data of the daemon that steps.

\* A step outside the loop that leaves the data alone.
LEMMA IdleData ==
    ASSUME NEW d \in Daemons, Data(d),
           mode_'[d] = mode_[d], subscribers_'[d] = subscribers_[d],
           round'[d] = round[d], states'[d] = states[d],
           begin'[d] = begin[d], end'[d] = end[d], sections'[d] = sections[d],
           pc'[d] \notin {"off"} \cup Serving,
           pc'[d] \in Setup => pc[d] \in {"off"} \cup Setup
    PROVE  Data(d)'
  <1>1. Subscribed(d)' = Subscribed(d)
    BY DEF Subscribed
  <1>2. Fresh(d)' /\ Stamps(d)'
    BY <1>1 DEF Data, Fresh, Stamps
  <1>3. Progress(d)' /\ Tiles(d)' /\ Rates(d)' /\ Origin(d)'
    BY DEF Data, Progress, Tiles, Rates, Origin, Serving, Updating
  <1> QED
    BY <1>2, <1>3 DEF Data

\* The start chooses a mode and subscriptions for data that is all zero.
LEMMA StartData ==
    ASSUME IInv, TypeOK', NEW d \in Daemons, Start(d)
    PROVE  Data(d)'
  <1>1. /\ pc[d] = "off" /\ pc'[d] = "remove" /\ round'[d] = round[d]
        /\ states'[d] = states[d] /\ begin'[d] = begin[d] /\ end'[d] = end[d]
        /\ sections'[d] = sections[d]
    BY DEF Start, Goto, IInv, TypeOK
  <1>2. /\ round'[d] = 0 /\ begin'[d] = 0 /\ end'[d] = 0
        /\ states'[d] = Zero /\ sections'[d] = ZeroSections
    BY <1>1 DEF IInv, Data, Fresh
  <1>3. \A f \in Fields : sections'[d][f] = Interval(0, 0)
    BY <1>2 DEF ZeroSections
  <1>4. /\ sections'[d].core.to = 0 /\ sections'[d].memory.to = 0 /\ sections'[d].qpi.to = 0
        /\ sections'[d].memory.from = 0
    BY <1>3 DEF Fields, Interval
  <1>5. \A f \in Subscribed(d)' : f \in Fields
    <2>1. subscribers_'[d] \subseteq {"core", "memory", "qpi"}
      BY SubscriptionAssumption DEF TypeOK
    <2> QED
      BY <2>1 DEF Subscribed, FieldsOf, Fields
  <1>6. Stamps(d)'
    BY <1>2, <1>3, <1>5 DEF Stamps, Interval
  <1>7. Fresh(d)' /\ Progress(d)' /\ Tiles(d)' /\ Rates(d)' /\ Origin(d)'
    BY <1>1, <1>2, <1>4 DEF Fresh, Progress, Tiles, Rates, Origin, Setup, Updating, Serving, Zero
  <1> QED
    BY <1>6, <1>7 DEF Data

LEMMA ProgramData ==
    ASSUME IInv, NEW d \in Daemons, ProgramAndSnapshot(d)
    PROVE  Data(d)'
  <1>1. /\ pc[d] = "program" /\ pc'[d] = "sleep" /\ round'[d] = 1
        /\ states'[d] = [Zero EXCEPT !.before = 1, !.qpiBefore = 1, !.timeBefore = 1]
        /\ begin'[d] = begin[d] /\ end'[d] = end[d] /\ sections'[d] = sections[d]
        /\ mode_'[d] = mode_[d] /\ subscribers_'[d] = subscribers_[d]
    BY DEF ProgramAndSnapshot, Goto, IInv, TypeOK, segmentVars
  <1>2. /\ begin[d] = 0 /\ end[d] = 0 /\ sections[d] = ZeroSections
    BY <1>1 DEF IInv, Data, Fresh, Setup
  <1>3. \A f \in Fields : sections'[d][f] = Interval(0, 0)
    BY <1>1, <1>2 DEF ZeroSections
  <1>4. /\ sections'[d].core.to = 0 /\ sections'[d].memory.to = 0 /\ sections'[d].qpi.to = 0
        /\ sections'[d].memory.from = 0
    BY <1>3 DEF Fields, Interval
  <1>5. states'[d].before = 1 /\ states'[d].uncoreBefore = 0 /\ states'[d].uncoreAfter = 0
    BY <1>1 DEF Zero
  <1>6. Subscribed(d)' = Subscribed(d) /\ Subscribed(d) \subseteq Fields
    BY <1>1, SubscribedFields DEF Subscribed, IInv
  <1>7. Stamps(d)'
    BY <1>1, <1>2, <1>3, <1>6 DEF Stamps, Interval
  <1>8. Fresh(d)' /\ Progress(d)' /\ Tiles(d)' /\ Rates(d)' /\ Origin(d)'
    BY <1>1, <1>4, <1>5 DEF Fresh, Progress, Tiles, Rates, Origin, Setup, Updating, Serving
  <1> QED
    BY <1>7, <1>8 DEF Data

LEMMA BeginData ==
    ASSUME IInv, NEW d \in Daemons, BeginUpdate(d)
    PROVE  Data(d)' /\ begin[d] <= begin'[d]
  <1>1. /\ pc[d] = "sleep" /\ pc'[d] = "update" /\ round'[d] = round[d] + 1
        /\ begin'[d] = round[d] + 1 /\ end'[d] = end[d] /\ states'[d] = states[d]
        /\ sections'[d] = sections[d]
        /\ mode_'[d] = mode_[d] /\ subscribers_'[d] = subscribers_[d]
    BY DEF BeginUpdate, Goto, IInv, TypeOK
  <1>2. Data(d) /\ Subscribed(d)' = Subscribed(d) /\ Subscribed(d) \subseteq Fields
    BY <1>1, SubscribedFields DEF Subscribed, IInv
  <1>3. /\ round[d] \in Nat /\ begin[d] \in Nat /\ end[d] \in Nat
        /\ \A f \in Fields : sections[d][f].to \in Nat
    BY DEF IInv, TypeOK, Snapshots, Intervals
  <1>4. Stamps(d)' /\ begin[d] <= begin'[d]
    BY <1>1, <1>2, <1>3 DEF Data, Stamps
  <1>5. Fresh(d)' /\ Progress(d)' /\ Tiles(d)' /\ Rates(d)' /\ Origin(d)'
    BY <1>1, <1>2 DEF Data, Fresh, Progress, Tiles, Rates, Origin, Setup, Updating, Serving
  <1> QED
    BY <1>4, <1>5 DEF Data

LEMMA UpdateData ==
    ASSUME IInv, NEW d \in Daemons, UpdatePCMState(d)
    PROVE  Data(d)'
  <1>1. /\ pc[d] = "update" /\ pc'[d] = "core" /\ round'[d] = round[d]
        /\ begin'[d] = begin[d] /\ end'[d] = end[d] /\ sections'[d] = sections[d]
        /\ mode_'[d] = mode_[d] /\ subscribers_'[d] = subscribers_[d]
    BY DEF UpdatePCMState, Goto, IInv, TypeOK, segmentVars
  <1>2. /\ states'[d].after = round[d] /\ states'[d].timeAfter = round[d]
        /\ states'[d].before = states[d].before
        /\ states'[d].uncoreBefore = states[d].uncoreBefore
        /\ states'[d].uncoreAfter = states[d].uncoreAfter
        /\ states'[d].timeBefore = states[d].timeBefore
    BY DEF UpdatePCMState, IInv, TypeOK, States
  <1>3. Data(d) /\ Subscribed(d)' = Subscribed(d)
    BY <1>1 DEF Subscribed, IInv
  <1> QED
    BY <1>1, <1>2, <1>3
       DEF Data, Fresh, Stamps, Progress, Tiles, Rates, Origin, Setup, Updating, Serving

LEMMA EndData ==
    ASSUME IInv, NEW d \in Daemons, EndUpdate(d)
    PROVE  Data(d)' /\ end[d] <= end'[d]
  <1>1. /\ pc[d] = "end" /\ pc'[d] = "sleep" /\ round'[d] = round[d]
        /\ begin'[d] = begin[d] /\ end'[d] = round[d] /\ sections'[d] = sections[d]
        /\ mode_'[d] = mode_[d] /\ subscribers_'[d] = subscribers_[d]
        /\ states'[d] = NextStates(states[d], mode_[d], subscribers_[d])
    BY DEF EndUpdate, Goto, IInv, TypeOK
  <1>2. states[d] \in States
    BY DEF IInv, TypeOK
  <1>3. /\ states'[d].timeBefore = states[d].timeAfter
        /\ mode_[d] = "difference" =>
             /\ states'[d].before = states[d].after
             /\ states'[d].uncoreBefore = states[d].uncoreAfter
             /\ states'[d].uncoreAfter = states[d].uncoreBefore
        /\ mode_[d] # "difference" =>
             /\ states'[d].before = states[d].before
             /\ states'[d].uncoreBefore = states[d].uncoreBefore
    BY <1>1, <1>2, NextStatesLemma
  <1>4. Data(d) /\ Subscribed(d)' = Subscribed(d) /\ begin[d] = round[d]
    BY <1>1 DEF Subscribed, IInv, Data, Progress, Updating
  <1>5. \A f \in Subscribed(d) : sections[d][f].to = round[d]
    BY <1>1, <1>4, SubscribedFields DEF Data, Progress, IInv, Fields
  <1>6. Stamps(d)' /\ end[d] <= end'[d]
    <2>1. round[d] \in Nat /\ end[d] \in Nat
      BY DEF IInv, TypeOK, Snapshots
    <2> QED
      BY <1>1, <1>4, <1>5, <2>1 DEF Data, Stamps
  <1>7. Fresh(d)' /\ Progress(d)' /\ Tiles(d)'
    BY <1>1, <1>3, <1>4 DEF Data, Fresh, Progress, Tiles, Setup, Updating
  <1>8. Rates(d)' /\ Origin(d)'
    BY <1>1, <1>3, <1>4 DEF Data, Rates, Origin, Serving, Updating
  <1> QED
    BY <1>6, <1>7, <1>8 DEF Data
\* The sections after a class has been published, and nothing else changed.
LEMMA PublishLemma ==
    ASSUME TypeOK, NEW d \in Daemons, NEW class \in {"core", "memory", "qpi"}, NEW new,
           \A f \in FieldsOf(class) : new[f] \in Intervals, Publish(d, class, new)
    PROVE  /\ sections' \in [Daemons -> [Fields -> Intervals]]
           /\ \A e \in Daemons \ {d} : sections'[e] = sections[e]
           /\ class \in subscribers_[d] => \A f \in Fields :
                 /\ f \in FieldsOf(class) => sections'[d][f] = new[f]
                 /\ f \notin FieldsOf(class) => sections'[d][f] = sections[d][f]
           /\ class \notin subscribers_[d] => sections' = sections
  <1>1. sections \in [Daemons -> [Fields -> Intervals]]
    BY DEF TypeOK
  <1>2. CASE class \notin subscribers_[d]
    BY <1>1, <1>2 DEF Publish
  <1>3. CASE class \in subscribers_[d]
    <2> DEFINE g == [f \in Fields |-> IF f \in FieldsOf(class) THEN new[f] ELSE sections[d][f]]
    <2>1. sections' = [sections EXCEPT ![d] = g]
      BY <1>3 DEF Publish
    <2>2. g \in [Fields -> Intervals]
      BY <1>1
    <2>3. \A f \in Fields : /\ f \in FieldsOf(class) => g[f] = new[f]
                            /\ f \notin FieldsOf(class) => g[f] = sections[d][f]
      OBVIOUS
    <2> HIDE DEF g
    <2>4. sections'[d] = g
      BY <1>1, <2>1
    <2> QED
      BY <1>1, <1>3, <2>1, <2>2, <2>3, <2>4
  <1> QED
    BY <1>2, <1>3

LEMMA CoreData ==
    ASSUME IInv, NEW d \in Daemons, GetPCMCore(d)
    PROVE  /\ Data(d)' /\ sections' \in [Daemons -> [Fields -> Intervals]]
           /\ \A e \in Daemons \ {d} : sections'[e] = sections[e]
  <1>1. /\ pc[d] = "core" /\ pc'[d] = "memory" /\ round'[d] = round[d]
        /\ begin'[d] = begin[d] /\ end'[d] = end[d] /\ states'[d] = states[d]
        /\ mode_'[d] = mode_[d] /\ subscribers_'[d] = subscribers_[d]
    BY DEF GetPCMCore, Publish, Goto, IInv, TypeOK
  <1> DEFINE new == [core |-> Interval(states[d].before, states[d].after)]
  <1>2. /\ new["core"].from = states[d].before /\ new["core"].to = states[d].after
        /\ FieldsOf("core") = {"core"}
    BY DEF Interval, FieldsOf
  <1>3. \A f \in FieldsOf("core") : new[f] \in Intervals
    BY DEF IInv, TypeOK, States, Intervals, Interval, FieldsOf
  <1>4. Publish(d, "core", new)
    BY DEF GetPCMCore
  <1> HIDE DEF new
  <1>5. /\ sections' \in [Daemons -> [Fields -> Intervals]]
        /\ \A e \in Daemons \ {d} : sections'[e] = sections[e]
        /\ "core" \in subscribers_[d] => \A f \in Fields :
              /\ f \in FieldsOf("core") => sections'[d][f] = new[f]
              /\ f \notin FieldsOf("core") => sections'[d][f] = sections[d][f]
        /\ "core" \notin subscribers_[d] => sections' = sections
    BY <1>3, <1>4, PublishLemma DEF IInv
  <1>6. /\ "core" \in subscribers_[d] => sections'[d].core = new["core"]
        /\ \A f \in Fields \ {"core"} : sections'[d][f] = sections[d][f]
    BY <1>2, <1>5 DEF Fields
  <1>7. /\ Data(d) /\ Subscribed(d)' = Subscribed(d)
        /\ begin[d] = round[d] /\ states[d].after = round[d]
    BY <1>1 DEF Subscribed, IInv, Data, Progress, Updating
  <1>8. end[d] \in Nat /\ begin[d] \in Nat /\ end[d] <= begin[d]
    BY <1>7 DEF IInv, TypeOK, Snapshots, Data, Stamps
  <1>9. CASE "core" \notin subscribers_[d]
    <2>1. sections'[d] = sections[d]
      BY <1>5, <1>9
    <2>2. sections[d].core.to = 0
      BY <1>7, <1>9, SubscribedFields DEF IInv, Data, Stamps, Fields, Interval
    <2> QED
      BY <1>1, <1>5, <1>7, <1>9, <2>1, <2>2
         DEF Data, Fresh, Stamps, Progress, Tiles, Rates, Origin, Setup, Updating, Serving
  <1>10. CASE "core" \in subscribers_[d]
    <2>1. /\ sections'[d].core.from = states[d].before /\ sections'[d].core.to = states[d].after
          /\ sections'[d].memory = sections[d].memory
          /\ sections'[d].memoryTime = sections[d].memoryTime
          /\ sections'[d].qpi = sections[d].qpi
          /\ sections'[d].qpiUtilization = sections[d].qpiUtilization
      BY <1>2, <1>6, <1>10 DEF Fields
    <2>2. Stamps(d)'
      <3>1. "core" \in Subscribed(d) /\ "core" \in Fields
        BY <1>10, SubscribedFields DEF IInv, Fields
      <3>2. \A f \in Fields \ Subscribed(d) : sections'[d][f] = Interval(0, 0)
        BY <1>6, <1>7, <3>1 DEF Data, Stamps
      <3>3. \A f \in Subscribed(d) :
               end[d] <= sections'[d][f].to /\ sections'[d][f].to <= begin[d]
        BY <1>6, <1>7, <1>8, <2>1, SubscribedFields DEF IInv, Data, Stamps
      <3> QED
        BY <1>1, <1>7, <3>2, <3>3 DEF Data, Stamps
    <2>3. Fresh(d)' /\ Progress(d)'
      BY <1>1, <1>7, <2>1 DEF Data, Fresh, Progress, Setup, Updating
    <2>4. Tiles(d)'
      BY <1>1, <1>7, <2>1 DEF Data, Tiles
    <2>5. Rates(d)' /\ Origin(d)'
      BY <1>1, <1>7, <2>1 DEF Data, Rates, Origin, Serving, Updating
    <2> QED
      BY <1>5, <2>2, <2>3, <2>4, <2>5 DEF Data
  <1> QED
    BY <1>9, <1>10
LEMMA MemoryData ==
    ASSUME IInv, NEW d \in Daemons, GetPCMMemory(d)
    PROVE  /\ Data(d)' /\ sections' \in [Daemons -> [Fields -> Intervals]]
           /\ \A e \in Daemons \ {d} : sections'[e] = sections[e]
  <1>1. /\ pc[d] = "memory" /\ pc'[d] = "qpi" /\ round'[d] = round[d]
        /\ begin'[d] = begin[d] /\ end'[d] = end[d]
        /\ mode_'[d] = mode_[d] /\ subscribers_'[d] = subscribers_[d]
    BY DEF GetPCMMemory, Publish, Goto, IInv, TypeOK
  <1>2. /\ states'[d].before = states[d].before /\ states'[d].after = states[d].after
        /\ states'[d].uncoreBefore = states[d].uncoreBefore
        /\ states'[d].timeBefore = states[d].timeBefore
        /\ states'[d].timeAfter = states[d].timeAfter
        /\ "memory" \in subscribers_[d] => states'[d].uncoreAfter = round[d]
        /\ "memory" \notin subscribers_[d] => states'[d].uncoreAfter = states[d].uncoreAfter
    BY DEF GetPCMMemory, IInv, TypeOK, States
  <1> DEFINE new == [memory |-> Interval(states[d].uncoreBefore, round[d]),
                     memoryTime |-> Interval(states[d].timeBefore, states[d].timeAfter)]
  <1>3. /\ new["memory"] = Interval(states[d].uncoreBefore, round[d])
        /\ new["memoryTime"] = Interval(states[d].timeBefore, states[d].timeAfter)
        /\ FieldsOf("memory") = {"memory", "memoryTime"}
    BY DEF FieldsOf
  <1>4. \A f \in FieldsOf("memory") : new[f] \in Intervals
    BY <1>3 DEF IInv, TypeOK, States, Intervals, Interval
  <1>5. Publish(d, "memory", new)
    BY DEF GetPCMMemory
  <1> HIDE DEF new
  <1>6. /\ sections' \in [Daemons -> [Fields -> Intervals]]
        /\ \A e \in Daemons \ {d} : sections'[e] = sections[e]
        /\ "memory" \in subscribers_[d] => \A f \in Fields :
              /\ f \in FieldsOf("memory") => sections'[d][f] = new[f]
              /\ f \notin FieldsOf("memory") => sections'[d][f] = sections[d][f]
        /\ "memory" \notin subscribers_[d] => sections' = sections
    BY <1>4, <1>5, PublishLemma DEF IInv
  <1>7. /\ Data(d) /\ Subscribed(d)' = Subscribed(d)
        /\ begin[d] = round[d] /\ states[d].timeAfter = round[d]
    BY <1>1 DEF Subscribed, IInv, Data, Progress, Updating
  <1>8. /\ end[d] \in Nat /\ begin[d] \in Nat /\ end[d] <= begin[d]
    BY <1>7 DEF IInv, TypeOK, Snapshots, Data, Stamps
  <1>9. CASE "memory" \notin subscribers_[d]
    <2>1. sections'[d] = sections[d]
      BY <1>6, <1>9
    <2>2. sections[d].memory.to = 0 /\ sections[d].memory.from = 0
      BY <1>7, <1>9, SubscribedFields DEF IInv, Data, Stamps, Fields, Interval
    <2>3. Fresh(d)' /\ Stamps(d)' /\ Progress(d)' /\ Tiles(d)'
      BY <1>1, <1>2, <1>7, <1>9, <2>1, <2>2
         DEF Data, Fresh, Stamps, Progress, Tiles, Setup, Updating
    <2>4. Rates(d)' /\ Origin(d)'
      BY <1>1, <1>2, <1>7, <1>9, <2>1, <2>2 DEF Data, Rates, Origin, Serving, Updating
    <2> QED
      BY <1>6, <2>3, <2>4 DEF Data
  <1>10. CASE "memory" \in subscribers_[d]
    <2>1. /\ sections'[d].memory = new["memory"]
          /\ sections'[d].memoryTime = new["memoryTime"]
          /\ sections'[d].core = sections[d].core
          /\ sections'[d].qpi = sections[d].qpi
          /\ sections'[d].qpiUtilization = sections[d].qpiUtilization
      BY <1>3, <1>6, <1>10 DEF Fields
    <2>2. /\ sections'[d].memory.from = states[d].uncoreBefore
          /\ sections'[d].memory.to = round[d]
          /\ sections'[d].memoryTime.to = round[d]
          /\ states[d].timeBefore = states[d].uncoreBefore
                => sections'[d].memory = sections'[d].memoryTime
      BY <1>3, <1>7, <2>1 DEF Interval
    <2>3. Stamps(d)'
      <3>1. "memory" \in Subscribed(d) /\ "memoryTime" \in Subscribed(d)
        BY <1>10, SubscribedFields DEF IInv
      <3>2. \A f \in Fields \ Subscribed(d) : sections'[d][f] = Interval(0, 0)
        BY <1>3, <1>6, <1>7, <1>10, <3>1 DEF Data, Stamps
      <3>3. \A f \in Subscribed(d) :
               end[d] <= sections'[d][f].to /\ sections'[d][f].to <= begin[d]
        <4>1. \A f \in Subscribed(d) : f \in Fields
          BY SubscribedFields DEF IInv
        <4> QED
          BY <1>3, <1>6, <1>7, <1>8, <1>10, <2>2, <4>1 DEF Data, Stamps
      <3> QED
        BY <1>1, <1>7, <3>2, <3>3 DEF Data, Stamps
    <2>4. Fresh(d)' /\ Progress(d)'
      BY <1>1, <1>2, <1>7, <2>1, <2>2 DEF Data, Fresh, Progress, Setup, Updating
    <2>5. Tiles(d)'
      BY <1>1, <1>2, <1>7, <1>10, <2>1, <2>2 DEF Data, Tiles
    <2>6. Rates(d)'
      BY <1>1, <1>2, <1>7, <1>10, <2>1, <2>2 DEF Data, Rates
    <2>7. Origin(d)'
      BY <1>1, <1>2, <1>7, <1>10, <2>1, <2>2 DEF Data, Origin, Serving, Updating
    <2> QED
      BY <1>6, <2>3, <2>4, <2>5, <2>6, <2>7 DEF Data
  <1> QED
    BY <1>9, <1>10

LEMMA QPIData ==
    ASSUME IInv, NEW d \in Daemons, GetPCMQPI(d)
    PROVE  /\ Data(d)' /\ sections' \in [Daemons -> [Fields -> Intervals]]
           /\ \A e \in Daemons \ {d} : sections'[e] = sections[e]
  <1>1. /\ pc[d] = "qpi" /\ pc'[d] = "end" /\ round'[d] = round[d]
        /\ begin'[d] = begin[d] /\ end'[d] = end[d] /\ states'[d] = states[d]
        /\ mode_'[d] = mode_[d] /\ subscribers_'[d] = subscribers_[d]
    BY DEF GetPCMQPI, Publish, Goto, IInv, TypeOK
  <1> DEFINE new == [qpi |-> Interval(states[d].before, states[d].after),
                     qpiUtilization |-> Interval(states[d].qpiBefore, states[d].after)]
  <1>2. /\ new["qpi"] = Interval(states[d].before, states[d].after)
        /\ new["qpiUtilization"].to = states[d].after
        /\ FieldsOf("qpi") = {"qpi", "qpiUtilization"}
    BY DEF FieldsOf, Interval
  <1>3. \A f \in FieldsOf("qpi") : new[f] \in Intervals
    BY DEF IInv, TypeOK, States, Intervals, Interval, FieldsOf
  <1>4. Publish(d, "qpi", new)
    BY DEF GetPCMQPI
  <1> HIDE DEF new
  <1>5. /\ sections' \in [Daemons -> [Fields -> Intervals]]
        /\ \A e \in Daemons \ {d} : sections'[e] = sections[e]
        /\ "qpi" \in subscribers_[d] => \A f \in Fields :
              /\ f \in FieldsOf("qpi") => sections'[d][f] = new[f]
              /\ f \notin FieldsOf("qpi") => sections'[d][f] = sections[d][f]
        /\ "qpi" \notin subscribers_[d] => sections' = sections
    BY <1>3, <1>4, PublishLemma DEF IInv
  <1>6. /\ Data(d) /\ Subscribed(d)' = Subscribed(d)
        /\ begin[d] = round[d] /\ states[d].after = round[d]
    BY <1>1 DEF Subscribed, IInv, Data, Progress, Updating
  <1>7. end[d] \in Nat /\ begin[d] \in Nat /\ end[d] <= begin[d]
    BY <1>6 DEF IInv, TypeOK, Snapshots, Data, Stamps
  <1>8. CASE "qpi" \notin subscribers_[d]
    <2>1. sections'[d] = sections[d]
      BY <1>5, <1>8
    <2>2. sections[d].qpi.to = 0
      BY <1>6, <1>8, SubscribedFields DEF IInv, Data, Stamps, Fields, Interval
    <2> QED
      BY <1>1, <1>5, <1>6, <1>8, <2>1, <2>2
         DEF Data, Fresh, Stamps, Progress, Tiles, Rates, Origin, Setup, Updating, Serving
  <1>9. CASE "qpi" \in subscribers_[d]
    <2>1. /\ sections'[d].qpi.from = states[d].before /\ sections'[d].qpi.to = states[d].after
          /\ sections'[d].qpiUtilization.to = states[d].after
          /\ sections'[d].core = sections[d].core
          /\ sections'[d].memory = sections[d].memory
          /\ sections'[d].memoryTime = sections[d].memoryTime
      BY <1>2, <1>5, <1>9 DEF Fields, Interval
    <2>2. Stamps(d)'
      <3>1. "qpi" \in Subscribed(d) /\ "qpiUtilization" \in Subscribed(d)
        BY <1>9, SubscribedFields DEF IInv
      <3>2. \A f \in Fields \ Subscribed(d) : sections'[d][f] = Interval(0, 0)
        BY <1>2, <1>5, <1>6, <1>9, <3>1 DEF Data, Stamps
      <3>3. \A f \in Subscribed(d) :
               end[d] <= sections'[d][f].to /\ sections'[d][f].to <= begin[d]
        <4>1. \A f \in Subscribed(d) : f \in Fields
          BY SubscribedFields DEF IInv
        <4> QED
          BY <1>2, <1>5, <1>6, <1>7, <1>9, <2>1, <4>1 DEF Data, Stamps
      <3> QED
        BY <1>1, <1>6, <3>2, <3>3 DEF Data, Stamps
    <2>3. Fresh(d)' /\ Progress(d)'
      BY <1>1, <1>6, <2>1 DEF Data, Fresh, Progress, Setup, Updating
    <2>4. Tiles(d)'
      BY <1>1, <1>6, <2>1 DEF Data, Tiles
    <2>5. Rates(d)' /\ Origin(d)'
      BY <1>1, <1>6, <2>1 DEF Data, Rates, Origin, Serving, Updating
    <2> QED
      BY <1>5, <2>2, <2>3, <2>4, <2>5 DEF Data
  <1> QED
    BY <1>8, <1>9
-----------------------------------------------------------------------------
\* What each daemon step does to the types, to the others and to the stamps.

Moves(d) == OnlyOf(d) /\ TypeOK' /\ pc'[d] # "off" /\ begin[d] <= begin'[d] /\ end[d] <= end'[d]

LEMMA SetupMoves ==
    ASSUME IInv, NEW d \in Daemons,
           \/ Start(d) \/ RemoveIdFile(d) \/ OpenIdFile(d) \/ WriteIdFile(d)
           \/ AttachAndSetup(d) \/ Fail(d) \/ ProgramAndSnapshot(d)
           \/ RemoveSegment(d) \/ UnlinkIdFile(d) \/ Crash(d)
    PROVE  Moves(d)
  <1>1. TypeOK /\ begin[d] \in Nat /\ end[d] \in Nat
    BY DEF IInv, TypeOK, Snapshots
  <1>2. begin' = begin /\ end' = end /\ sections' = sections /\ UNCHANGED clientVars
    BY DEF Start, RemoveIdFile, OpenIdFile, WriteIdFile, AttachAndSetup, Fail,
           ProgramAndSnapshot, RemoveSegment, UnlinkIdFile, Crash, segmentVars
  <1>3. CASE Start(d)
    <2>1. TypeOK'
      BY <1>1, <1>2, <1>3 DEF Start, Goto, TypeOK, clientVars, fileVars, Alive, Setup
    <2> QED
      BY <1>1, <1>2, <1>3, <2>1 DEF Start, Goto, TypeOK, Moves, OnlyOf
  <1>4. CASE RemoveIdFile(d)
    <2>1. TypeOK'
      BY <1>1, <1>2, <1>4
         DEF RemoveIdFile, RemoveFile, Goto, TypeOK, clientVars, segmentVars, Alive, Setup
    <2> QED
      BY <1>1, <1>2, <1>4, <2>1 DEF RemoveIdFile, Goto, TypeOK, Moves, OnlyOf, segmentVars
  <1>5. CASE OpenIdFile(d)
    <2>1. TypeOK'
      BY <1>1, <1>2, <1>5 DEF OpenIdFile, Goto, TypeOK, clientVars, segmentVars, Alive, Setup
    <2> QED
      BY <1>1, <1>2, <1>5, <2>1 DEF OpenIdFile, Goto, TypeOK, Moves, OnlyOf, segmentVars
  <1>6. CASE WriteIdFile(d)
    <2>1. TypeOK'
      BY <1>1, <1>2, <1>6 DEF WriteIdFile, Goto, TypeOK, clientVars, segmentVars, Alive, Setup
    <2> QED
      BY <1>1, <1>2, <1>6, <2>1 DEF WriteIdFile, Goto, TypeOK, Moves, OnlyOf, segmentVars
  <1>7. CASE AttachAndSetup(d)
    <2>1. TypeOK'
      BY <1>1, <1>2, <1>7
         DEF AttachAndSetup, Goto, TypeOK, clientVars, segmentVars, fileVars, Alive, Setup
    <2> QED
      BY <1>1, <1>2, <1>7, <2>1 DEF AttachAndSetup, Goto, TypeOK, Moves, OnlyOf, segmentVars
  <1>8. CASE Fail(d)
    <2>1. TypeOK'
      BY <1>1, <1>2, <1>8 DEF Fail, TypeOK, clientVars, segmentVars, fileVars, Ended
    <2> QED
      BY <1>1, <1>2, <1>8, <2>1 DEF Fail, TypeOK, Moves, OnlyOf, segmentVars
  <1>9. CASE ProgramAndSnapshot(d)
    <2>1. TypeOK'
      <3>1. states' \in [Daemons -> States]
        BY <1>1, <1>9 DEF ProgramAndSnapshot, TypeOK, States, Zero, Snapshots
      <3> QED
        BY <1>1, <1>2, <1>9, <3>1
           DEF ProgramAndSnapshot, Goto, TypeOK, clientVars, segmentVars, fileVars, Alive,
               Serving, Snapshots
    <2> QED
      BY <1>1, <1>2, <1>9, <2>1 DEF ProgramAndSnapshot, Goto, TypeOK, Moves, OnlyOf, segmentVars
  <1>10. CASE RemoveSegment(d)
    <2>1. TypeOK'
      BY <1>1, <1>2, <1>10 DEF RemoveSegment, TypeOK, clientVars, fileVars, Alive
    <2> QED
      BY <1>1, <1>2, <1>10, <2>1 DEF RemoveSegment, TypeOK, Moves, OnlyOf
  <1>11. CASE UnlinkIdFile(d)
    <2>1. TypeOK'
      BY <1>1, <1>2, <1>11
         DEF UnlinkIdFile, RemoveFile, Goto, TypeOK, clientVars, segmentVars, Ended
    <2> QED
      BY <1>1, <1>2, <1>11, <2>1 DEF UnlinkIdFile, Goto, TypeOK, Moves, OnlyOf, segmentVars
  <1>12. CASE Crash(d)
    <2>1. TypeOK'
      BY <1>1, <1>2, <1>12 DEF Crash, TypeOK, clientVars, segmentVars, fileVars, Ended
    <2> QED
      BY <1>1, <1>2, <1>12, <2>1 DEF Crash, TypeOK, Moves, OnlyOf, segmentVars
  <1> QED
    BY <1>3, <1>4, <1>5, <1>6, <1>7, <1>8, <1>9, <1>10, <1>11, <1>12

LEMMA AfterLemma ==
    ASSUME NEW s \in States, NEW n \in Snapshots
    PROVE  [s EXCEPT !.after = n, !.timeAfter = n] \in States
  BY DEF States

LEMMA UncoreAfterLemma ==
    ASSUME NEW s \in States, NEW n \in Snapshots
    PROVE  [s EXCEPT !.uncoreAfter = n] \in States
  BY DEF States

LEMMA UpdateMoves ==
    ASSUME IInv, NEW d \in Daemons,
           \/ BeginUpdate(d) \/ UpdatePCMState(d) \/ GetPCMCore(d) \/ GetPCMMemory(d)
           \/ GetPCMQPI(d) \/ EndUpdate(d)
    PROVE  Moves(d) /\ Data(d)'
  <1>1. TypeOK /\ begin[d] \in Nat /\ end[d] \in Nat /\ round[d] \in Nat
    BY DEF IInv, TypeOK, Snapshots
  <1>2. CASE BeginUpdate(d)
    <2>1. TypeOK'
      BY <1>1, <1>2
         DEF BeginUpdate, Goto, TypeOK, clientVars, fileVars, Alive, Serving, Updating, Snapshots
    <2>2. Data(d)' /\ begin[d] <= begin'[d] /\ end'[d] = end[d] /\ pc'[d] # "off"
      BY <1>1, <1>2, BeginData DEF BeginUpdate, Goto, TypeOK
    <2>3. OnlyOf(d)
      BY <1>1, <1>2 DEF BeginUpdate, Goto, TypeOK, OnlyOf
    <2> QED
      BY <1>1, <2>1, <2>2, <2>3 DEF Moves
  <1>3. CASE UpdatePCMState(d)
    <2>1. states' \in [Daemons -> States]
      <3> DEFINE s == [states[d] EXCEPT !.after = round[d], !.timeAfter = round[d]]
      <3>1. s \in States
        BY <1>1, AfterLemma DEF TypeOK, Snapshots
      <3>2. states' = [states EXCEPT ![d] = s]
        BY <1>1, <1>3 DEF UpdatePCMState, TypeOK
      <3> HIDE DEF s
      <3> QED
        BY <1>1, <3>1, <3>2 DEF TypeOK
    <2>2. TypeOK'
      BY <1>1, <1>3, <2>1
         DEF UpdatePCMState, Goto, TypeOK, clientVars, segmentVars, fileVars, Alive, Serving, Updating
    <2>3. Data(d)' /\ begin' = begin /\ end' = end /\ pc'[d] # "off"
      BY <1>1, <1>3, UpdateData DEF UpdatePCMState, Goto, TypeOK, segmentVars
    <2>4. OnlyOf(d)
      BY <1>1, <1>3 DEF UpdatePCMState, Goto, TypeOK, OnlyOf, segmentVars
    <2> QED
      BY <1>1, <2>2, <2>3, <2>4 DEF Moves
  <1>4. CASE GetPCMCore(d)
    <2>1. /\ Data(d)' /\ sections' \in [Daemons -> [Fields -> Intervals]]
          /\ \A e \in Daemons \ {d} : sections'[e] = sections[e]
      BY <1>4, CoreData
    <2>2. TypeOK'
      BY <1>1, <1>4, <2>1
         DEF GetPCMCore, Publish, Goto, TypeOK, clientVars, fileVars, Alive, Serving, Updating
    <2>3. begin' = begin /\ end' = end /\ pc'[d] # "off"
      BY <1>1, <1>4 DEF GetPCMCore, Publish, Goto, TypeOK
    <2>4. OnlyOf(d)
      BY <1>1, <1>4, <2>1, <2>2 DEF GetPCMCore, Publish, Goto, TypeOK, OnlyOf
    <2> QED
      BY <1>1, <2>1, <2>2, <2>3, <2>4 DEF Moves
  <1>5. CASE GetPCMMemory(d)
    <2>1. /\ Data(d)' /\ sections' \in [Daemons -> [Fields -> Intervals]]
          /\ \A e \in Daemons \ {d} : sections'[e] = sections[e]
      BY <1>5, MemoryData
    <2>2. states' \in [Daemons -> States] /\ \A e \in Daemons \ {d} : states'[e] = states[e]
      <3> DEFINE s == [states[d] EXCEPT !.uncoreAfter = round[d]]
      <3>1. s \in States
        BY <1>1, UncoreAfterLemma DEF TypeOK, Snapshots
      <3>2. states' = states \/ states' = [states EXCEPT ![d] = s]
        BY <1>5 DEF GetPCMMemory
      <3> HIDE DEF s
      <3> QED
        BY <1>1, <3>1, <3>2 DEF TypeOK
    <2>3. TypeOK'
      BY <1>1, <1>5, <2>1, <2>2
         DEF GetPCMMemory, Publish, Goto, TypeOK, clientVars, fileVars, Alive, Serving, Updating
    <2>4. begin' = begin /\ end' = end /\ pc'[d] # "off"
      BY <1>1, <1>5 DEF GetPCMMemory, Publish, Goto, TypeOK
    <2>5. OnlyOf(d)
      BY <1>1, <1>5, <2>1, <2>2, <2>3 DEF GetPCMMemory, Publish, Goto, TypeOK, OnlyOf
    <2> QED
      BY <1>1, <2>1, <2>2, <2>3, <2>4, <2>5 DEF Moves
  <1>6. CASE GetPCMQPI(d)
    <2>1. /\ Data(d)' /\ sections' \in [Daemons -> [Fields -> Intervals]]
          /\ \A e \in Daemons \ {d} : sections'[e] = sections[e]
      BY <1>6, QPIData
    <2>2. TypeOK'
      BY <1>1, <1>6, <2>1
         DEF GetPCMQPI, Publish, Goto, TypeOK, clientVars, fileVars, Alive, Serving, Updating
    <2>3. begin' = begin /\ end' = end /\ pc'[d] # "off"
      BY <1>1, <1>6 DEF GetPCMQPI, Publish, Goto, TypeOK
    <2>4. OnlyOf(d)
      BY <1>1, <1>6, <2>1, <2>2 DEF GetPCMQPI, Publish, Goto, TypeOK, OnlyOf
    <2> QED
      BY <1>1, <2>1, <2>2, <2>3, <2>4 DEF Moves
  <1>7. CASE EndUpdate(d)
    <2>1. states' \in [Daemons -> States]
      BY <1>1, <1>7, NextStatesLemma DEF EndUpdate, TypeOK
    <2>2. TypeOK'
      BY <1>1, <1>7, <2>1
         DEF EndUpdate, Goto, TypeOK, clientVars, fileVars, Alive, Serving
    <2>3. Data(d)' /\ end[d] <= end'[d] /\ begin' = begin /\ pc'[d] # "off"
      BY <1>1, <1>7, EndData DEF EndUpdate, Goto, TypeOK
    <2>4. OnlyOf(d)
      BY <1>1, <1>7 DEF EndUpdate, Goto, TypeOK, OnlyOf
    <2> QED
      BY <1>1, <2>2, <2>3, <2>4 DEF Moves
  <1> QED
    BY <1>2, <1>3, <1>4, <1>5, <1>6, <1>7

LEMMA SetupData ==
    ASSUME IInv, NEW d \in Daemons,
           \/ Start(d) \/ RemoveIdFile(d) \/ OpenIdFile(d) \/ WriteIdFile(d)
           \/ AttachAndSetup(d) \/ Fail(d) \/ ProgramAndSnapshot(d)
           \/ RemoveSegment(d) \/ UnlinkIdFile(d) \/ Crash(d)
    PROVE  Data(d)'
  <1>1. Data(d) /\ TypeOK
    BY DEF IInv
  <1>2. CASE Start(d)
    BY <1>2, StartData, SetupMoves DEF Moves
  <1>3. CASE ProgramAndSnapshot(d)
    BY <1>3, ProgramData
  <1>4. CASE \/ RemoveIdFile(d) \/ OpenIdFile(d) \/ WriteIdFile(d) \/ AttachAndSetup(d)
             \/ Fail(d) \/ RemoveSegment(d) \/ UnlinkIdFile(d) \/ Crash(d)
    <2>1. /\ mode_'[d] = mode_[d] /\ subscribers_'[d] = subscribers_[d]
          /\ round'[d] = round[d] /\ states'[d] = states[d]
          /\ begin'[d] = begin[d] /\ end'[d] = end[d] /\ sections'[d] = sections[d]
      BY <1>4 DEF RemoveIdFile, OpenIdFile, WriteIdFile, AttachAndSetup, Fail, RemoveSegment,
                  UnlinkIdFile, Crash, segmentVars
    <2>2. /\ pc'[d] \in {"open", "write", "attach", "program", "failed", "unlink", "exited", "crashed"}
          /\ pc'[d] \in {"open", "write", "attach", "program"} => pc[d] \in Setup
      BY <1>1, <1>4 DEF RemoveIdFile, OpenIdFile, WriteIdFile, AttachAndSetup, Fail,
                  RemoveSegment, UnlinkIdFile, Crash, Goto, TypeOK, Setup
    <2> QED
      BY <1>1, <2>1, <2>2, IdleData DEF Setup, Serving, Updating
  <1> QED
    BY <1>2, <1>3, <1>4

-----------------------------------------------------------------------------
\* Files and segments.

\* A step that touches neither, nor brings its daemon into the serving part.
LEMMA QuietFiles ==
    ASSUME IInv, NEW d \in Daemons, OnlyOf(d),
           segment'[d] = segment[d], UNCHANGED fileVars, overlap' = overlap,
           pc[d] \in Alive,
           pc'[d] \in {"failed", "crashed", "attach", "program"} \cup Serving,
           pc'[d] \in {"attach", "program"} \cup Serving => pc[d] \in {"attach", "program"} \cup Serving
    PROVE  Alone' /\ \A e \in Daemons : Files(e)'
  <1>1. Alone /\ \A e \in Daemons : Files(e)
    BY DEF IInv
  <1>2. \A e \in Daemons : pc'[e] \in Alive => pc[e] \in Alive
    BY DEF OnlyOf
  <1>3. Alone'
    BY <1>1, <1>2 DEF Alone
  <1>4. ASSUME NEW e \in Daemons PROVE Files(e)'
    <2>1. CASE e = d
      BY <1>1, <2>1 DEF Files, fileVars, Serving, Updating
    <2>2. CASE e # d
      <3>1. pc'[e] = pc[e] /\ segment'[e] = segment[e]
        BY <2>2 DEF OnlyOf
      <3> QED
        BY <1>1, <3>1 DEF Files, fileVars
    <2> QED
      BY <2>1, <2>2
  <1> QED
    BY <1>3, <1>4
\* The steps that do touch them.
LEMMA StepFiles ==
    ASSUME IInv, NEW d \in Daemons, OnlyOf(d),
           \/ Start(d) \/ RemoveIdFile(d) \/ OpenIdFile(d) \/ WriteIdFile(d)
           \/ RemoveSegment(d) \/ UnlinkIdFile(d)
    PROVE  Alone' /\ \A e \in Daemons : Files(e)'
  <1>1. TypeOK /\ Alone /\ \A e \in Daemons : Files(e)
    BY DEF IInv
  <1>2. ASSUME NEW e \in Daemons \ {d} PROVE pc'[e] = pc[e] /\ segment'[e] = segment[e]
    BY DEF OnlyOf
  <1>3. ASSUME ~overlap, NEW e \in Daemons \ {d}, pc[d] \in Alive PROVE pc[e] \notin Alive
    BY <1>1, <1>3 DEF Alone
  <1>4. CASE Start(d)
    <2>1. /\ pc[d] = "off" /\ pc'[d] = "remove" /\ UNCHANGED fileVars
          /\ overlap' = (overlap \/ \E e \in Daemons : pc[e] \in Alive)
      BY <1>1, <1>4 DEF Start, Goto, TypeOK
    <2>2. ASSUME ~overlap', NEW e \in Daemons PROVE ~overlap /\ pc[e] \notin Alive
      BY <2>1, <2>2
    <2>3. Alone'
      BY <1>2, <2>2 DEF Alone
    <2>4. ASSUME NEW e \in Daemons PROVE Files(e)'
      <3>1. CASE e = d
        BY <2>1, <3>1 DEF Files, Serving, Updating
      <3>2. CASE e # d
        <4>1. pc'[e] = pc[e] /\ segment'[e] = segment[e]
          BY <1>2, <3>2
        <4>2. ~overlap' => ~overlap
          BY <2>2
        <4> QED
          BY <1>1, <2>1, <4>1, <4>2 DEF Files, fileVars
      <3> QED
        BY <3>1, <3>2
    <2> QED
      BY <2>3, <2>4
  <1>5. CASE RemoveIdFile(d) \/ UnlinkIdFile(d)
    <2>1. /\ pc[d] \in {"remove", "unlink"} /\ pc'[d] \in {"open", "exited"}
          /\ pc'[d] = "exited" => pc[d] = "unlink"
          /\ pc[d] \in Alive /\ segment'[d] = segment[d]
          /\ idFile' = None /\ overlap' = overlap
      BY <1>1, <1>5 DEF RemoveIdFile, UnlinkIdFile, RemoveFile, Goto, TypeOK, segmentVars, Alive, Setup
    <2>2. Alone'
      BY <1>1, <1>2, <2>1 DEF Alone
    <2>3. ASSUME NEW e \in Daemons PROVE Files(e)'
      <3>1. CASE e = d
        BY <1>1, <2>1, <3>1, NameAssumption DEF Files, Serving, Updating
      <3>2. CASE e # d
        <4>1. pc'[e] = pc[e] /\ segment'[e] = segment[e]
          BY <1>2, <3>2
        <4>2. ~overlap => pc[e] \notin Alive
          BY <1>3, <2>1, <3>2
        <4> QED
          BY <1>1, <2>1, <4>1, <4>2, NameAssumption DEF Files, Alive, Setup
      <3> QED
        BY <3>1, <3>2
    <2> QED
      BY <2>2, <2>3
  <1>6. CASE OpenIdFile(d)
    <2>1. /\ pc[d] = "open" /\ pc'[d] = "write" /\ pc[d] \in Alive
          /\ idFile' = Empty /\ linked'[d] /\ overlap' = overlap
      BY <1>1, <1>6 DEF OpenIdFile, Goto, TypeOK, Alive, Setup
    <2>2. Alone'
      BY <1>1, <1>2, <2>1 DEF Alone
    <2>3. ASSUME NEW e \in Daemons PROVE Files(e)'
      <3>1. CASE e = d
        BY <2>1, <3>1 DEF Files, Serving, Updating
      <3>2. CASE e # d
        <4>1. pc'[e] = pc[e] /\ segment'[e] = segment[e]
          BY <1>2, <3>2
        <4>2. ~overlap => pc[e] \notin Alive
          BY <1>3, <2>1, <3>2
        <4> QED
          BY <1>1, <2>1, <4>1, <4>2, NameAssumption DEF Files, Alive, Setup
      <3> QED
        BY <3>1, <3>2
    <2> QED
      BY <2>2, <2>3
  <1>7. CASE WriteIdFile(d)
    <2>1. /\ pc[d] = "write" /\ pc'[d] = "attach" /\ pc[d] \in Alive
          /\ idFile' = (IF linked[d] THEN d ELSE idFile)
          /\ linked' = linked /\ overlap' = overlap
      BY <1>1, <1>7 DEF WriteIdFile, Goto, TypeOK, Alive, Setup
    <2>2. Alone'
      BY <1>1, <1>2, <2>1 DEF Alone
    <2>3. ASSUME NEW e \in Daemons PROVE Files(e)'
      <3>1. CASE e = d
        BY <1>1, <2>1, <3>1 DEF Files
      <3>2. CASE e # d
        <4>1. pc'[e] = pc[e] /\ segment'[e] = segment[e]
          BY <1>2, <3>2
        <4>2. ~overlap => pc[e] \notin Alive
          BY <1>3, <2>1, <3>2
        <4>3. idFile' = d \/ idFile' = idFile
          BY <2>1
        <4> QED
          BY <1>1, <2>1, <3>2, <4>1, <4>2, <4>3 DEF Files, Alive, Setup
      <3> QED
        BY <3>1, <3>2
    <2> QED
      BY <2>2, <2>3
  <1>8. CASE RemoveSegment(d)
    <2>1. /\ pc[d] \in {"program"} \cup Serving /\ pc'[d] = "unlink" /\ pc[d] \in Alive
          /\ segment'[d] = "removed" /\ UNCHANGED fileVars /\ overlap' = overlap
      BY <1>1, <1>8 DEF RemoveSegment, TypeOK, Alive, Setup
    <2>2. Alone'
      BY <1>1, <1>2, <2>1 DEF Alone
    <2>3. ASSUME NEW e \in Daemons PROVE Files(e)'
      <3>1. CASE e = d
        BY <2>1, <3>1 DEF Files, Serving, Updating
      <3>2. CASE e # d
        <4>1. pc'[e] = pc[e] /\ segment'[e] = segment[e]
          BY <1>2, <3>2
        <4> QED
          BY <1>1, <2>1, <4>1 DEF Files, fileVars
      <3> QED
        BY <3>1, <3>2
    <2> QED
      BY <2>2, <2>3
  <1> QED
    BY <1>4, <1>5, <1>6, <1>7, <1>8

LEMMA AllFiles ==
    ASSUME IInv, NEW d \in Daemons, OnlyOf(d),
           Start(d) \/ DaemonStep(d) \/ Fail(d) \/ RemoveSegment(d) \/ Crash(d)
    PROVE  Alone' /\ \A e \in Daemons : Files(e)'
  <1>1. TypeOK
    BY DEF IInv
  <1>2. CASE \/ Start(d) \/ RemoveIdFile(d) \/ OpenIdFile(d) \/ WriteIdFile(d)
             \/ RemoveSegment(d) \/ UnlinkIdFile(d)
    BY <1>2, StepFiles
  <1>3. CASE AttachAndSetup(d) \/ ProgramAndSnapshot(d) \/ Fail(d) \/ Crash(d)
    <2>1. /\ segment' = segment /\ UNCHANGED fileVars /\ overlap' = overlap
          /\ pc[d] \in Alive
          /\ pc'[d] \in {"failed", "crashed", "program", "sleep"}
          /\ pc'[d] \in {"program", "sleep"} => pc[d] \in {"attach", "program"}
      BY <1>1, <1>3 DEF AttachAndSetup, ProgramAndSnapshot, Fail, Crash, Goto, TypeOK,
                        segmentVars, Alive, Setup
    <2> QED
      BY <2>1, QuietFiles DEF Serving, Updating
  <1>4. CASE \/ BeginUpdate(d) \/ UpdatePCMState(d) \/ GetPCMCore(d) \/ GetPCMMemory(d)
             \/ GetPCMQPI(d) \/ EndUpdate(d)
    <2>1. segment' = segment /\ UNCHANGED fileVars /\ overlap' = overlap
      BY <1>4 DEF BeginUpdate, UpdatePCMState, GetPCMCore, GetPCMMemory, GetPCMQPI,
                  EndUpdate, Publish, segmentVars
    <2>2. \E from, to \in Serving : Goto(d, from, to)
      BY <1>4 DEF BeginUpdate, UpdatePCMState, GetPCMCore, GetPCMMemory, GetPCMQPI,
                  EndUpdate, Serving, Updating
    <2>3. pc[d] \in Serving /\ pc'[d] \in Serving
      BY <1>1, <2>2 DEF Goto, TypeOK
    <2> QED
      BY <2>1, <2>3, QuietFiles DEF Alive
  <1> QED
    BY <1>2, <1>3, <1>4 DEF DaemonStep

LEMMA DaemonIInv ==
    ASSUME IInv, NEW d \in Daemons,
           Start(d) \/ DaemonStep(d) \/ Fail(d) \/ RemoveSegment(d) \/ Crash(d)
    PROVE  IInv'
  <1>1. Moves(d) /\ Data(d)'
    BY SetupMoves, SetupData, UpdateMoves DEF DaemonStep
  <1>2. \A e \in Daemons : Data(e)'
    BY <1>1, OthersData DEF IInv, Moves
  <1>3. Alone' /\ \A e \in Daemons : Files(e)'
    BY <1>1, AllFiles DEF Moves
  <1>4. pc[d] = "off" \/ subscribers_'[d] = subscribers_[d]
    BY DEF DaemonStep, Start, RemoveIdFile, OpenIdFile, WriteIdFile, AttachAndSetup, Fail,
           ProgramAndSnapshot, RemoveSegment, UnlinkIdFile, Crash, BeginUpdate,
           UpdatePCMState, GetPCMCore, GetPCMMemory, GetPCMQPI, EndUpdate, Publish, Goto
  <1>5. \A c \in Clients : ClientInv(c)'
    BY <1>1, <1>4, ClientsStay DEF Moves
  <1> QED
    BY <1>1, <1>2, <1>3, <1>5 DEF IInv, Moves
-----------------------------------------------------------------------------
\* The clients.

\* A client's step leaves the daemons, and the other clients, as they are.
LEMMA OneClient ==
    ASSUME IInv, TypeOK', NEW c \in Clients, UNCHANGED <<daemonVars, segmentVars, fileVars>>,
           ClientInv(c)',
           \A k \in Clients \ {c} :
              /\ cpc'[k] = cpc[k] /\ target'[k] = target[k] /\ copy'[k] = copy[k]
              /\ lastUpdatedClientTsc_'[k] = lastUpdatedClientTsc_[k]
    PROVE  IInv'
  <1>1. Alone' /\ \A d \in Daemons : Data(d)' /\ Files(d)'
    <2>1. \A d \in Daemons : Subscribed(d)' = Subscribed(d)
      BY DEF Subscribed, daemonVars
    <2>2. Alone'
      BY DEF IInv, Alone, daemonVars
    <2>3. \A d \in Daemons : Files(d)'
      BY DEF IInv, Files, daemonVars, segmentVars, fileVars
    <2>4. \A d \in Daemons : Data(d)'
      BY <2>1 DEF IInv, Data, Fresh, Stamps, Progress, Tiles, Rates, Origin,
                  daemonVars, segmentVars
    <2> QED
      BY <2>2, <2>3, <2>4
  <1>2. ASSUME NEW k \in Clients \ {c} PROVE ClientInv(k)'
    <2>1. /\ pc' = pc /\ begin' = begin /\ end' = end /\ subscribers_' = subscribers_
          /\ cpc'[k] = cpc[k] /\ target'[k] = target[k] /\ copy'[k] = copy[k]
          /\ lastUpdatedClientTsc_'[k] = lastUpdatedClientTsc_[k]
      BY DEF daemonVars, segmentVars
    <2>2. Taken(k)' = Taken(k) /\ (AttachedTo(k)' <=> AttachedTo(k))
      BY <2>1 DEF Taken, AttachedTo, Subscribed
    <2> QED
      BY <2>1, <2>2 DEF IInv, ClientInv
  <1> QED
    BY <1>1, <1>2 DEF IInv

LEMMA ClientIInv ==
    ASSUME IInv, NEW c \in Clients, ClientStep(c) \/ Quit(c)
    PROVE  IInv'
  <1> DEFINE D == UNCHANGED <<daemonVars, segmentVars, fileVars>>
             Rest == \A k \in Clients \ {c} :
                       /\ cpc'[k] = cpc[k] /\ target'[k] = target[k] /\ copy'[k] = copy[k]
                       /\ lastUpdatedClientTsc_'[k] = lastUpdatedClientTsc_[k]
  <1>1. TypeOK /\ ClientInv(c)
    BY DEF IInv
  <1>2. CASE (OpenAndRead(c) /\ idFile \notin Daemons) \/ Quit(c)
    <2>1. /\ cpc' = [cpc EXCEPT ![c] = "gone"] /\ UNCHANGED <<target, lastUpdatedClientTsc_, copy>> /\ D
      BY <1>2 DEF OpenAndRead, Quit, ClientGoto
    <2>2. TypeOK'
      BY <1>1, <2>1 DEF TypeOK, daemonVars, segmentVars, fileVars
    <2>3. ClientInv(c)' /\ Rest
      BY <1>1, <2>1 DEF TypeOK, ClientInv, AttachedTo, Taken
    <2> QED
      BY <2>1, <2>2, <2>3, OneClient
  <1>3. CASE OpenAndRead(c) /\ idFile \in Daemons
    <2>1. /\ cpc' = [cpc EXCEPT ![c] = "attach"] /\ target' = [target EXCEPT ![c] = idFile]
          /\ UNCHANGED <<lastUpdatedClientTsc_, copy>> /\ D
      BY <1>3 DEF OpenAndRead, ClientGoto
    <2>2. TypeOK'
      BY <1>1, <1>3, <2>1 DEF TypeOK, daemonVars, segmentVars, fileVars
    <2>3. pc[idFile] # "off"
      BY <1>3 DEF IInv, Files
    <2>4. ClientInv(c)' /\ Rest
      BY <1>1, <2>1, <2>3 DEF TypeOK, ClientInv, AttachedTo, Taken, daemonVars
    <2> QED
      BY <2>1, <2>2, <2>4, OneClient
  <1>4. CASE Connect(c) /\ ~Attachable(target[c])
    <2>1. /\ cpc' = [cpc EXCEPT ![c] = "gone"] /\ UNCHANGED <<target, lastUpdatedClientTsc_, copy>> /\ D
      BY <1>4 DEF Connect, ClientGoto
    <2>2. TypeOK'
      BY <1>1, <2>1 DEF TypeOK, daemonVars, segmentVars, fileVars
    <2>3. ClientInv(c)' /\ Rest
      BY <1>1, <2>1 DEF TypeOK, ClientInv, AttachedTo, Taken
    <2> QED
      BY <2>1, <2>2, <2>3, OneClient
  <1>5. CASE (Connect(c) /\ Attachable(target[c])) \/ Read(c)
    <2> DEFINE t == target[c]
    <2>1. PICK next \in {"wait", "core"} :
          /\ cpc[c] \in {"attach", "wait"} /\ cpc' = [cpc EXCEPT ![c] = next]
          /\ lastUpdatedClientTsc_' = [lastUpdatedClientTsc_ EXCEPT ![c] = end[t]]
          /\ UNCHANGED <<target, copy>> /\ D
      BY <1>5 DEF Connect, Read, ClientGoto
    <2>2. t \in Daemons /\ pc[t] # "off" /\ end[t] \in Nat
      BY <1>1, <2>1 DEF TypeOK, ClientInv, Snapshots
    <2>3. TypeOK'
      BY <1>1, <2>1, <2>2 DEF TypeOK, daemonVars, segmentVars, fileVars, Snapshots
    <2>4. ClientInv(c)' /\ Rest
      BY <1>1, <2>1, <2>2 DEF TypeOK, ClientInv, AttachedTo, Taken, daemonVars, segmentVars
    <2> QED
      BY <2>1, <2>3, <2>4, OneClient
  <1>6. ASSUME NEW class, NEW next, Take(c, class, next),
               \/ class = "core" /\ next = "memory"
               \/ class = "memory" /\ next = "qpi"
               \/ class = "qpi" /\ next = "have"
        PROVE  IInv'
    <2> DEFINE t == target[c]
               new == [f \in Fields |-> IF f \in FieldsOf(class) THEN sections[t][f] ELSE copy[c][f]]
    <2>1. /\ cpc[c] = class /\ cpc' = [cpc EXCEPT ![c] = next]
          /\ copy' = [copy EXCEPT ![c] = new]
          /\ UNCHANGED <<target, lastUpdatedClientTsc_>> /\ D
      BY <1>1, <1>6 DEF Take, ClientGoto, TypeOK
    <2>2. t \in Daemons /\ pc[t] # "off"
      BY <1>1, <1>6, <2>1 DEF TypeOK, ClientInv
    <2>3. new \in [Fields -> Intervals]
      BY <1>1, <2>2 DEF TypeOK
    <2>4. \A f \in Fields : /\ f \in FieldsOf(class) => new[f] = sections[t][f]
                            /\ f \notin FieldsOf(class) => new[f] = copy[c][f]
      OBVIOUS
    <2> HIDE DEF new
    <2>5. TypeOK'
      BY <1>1, <1>6, <2>1, <2>2, <2>3 DEF TypeOK, daemonVars, segmentVars, fileVars
    <2>6. /\ cpc'[c] = next /\ copy'[c] = new /\ target'[c] = t
          /\ lastUpdatedClientTsc_'[c] = lastUpdatedClientTsc_[c]
          /\ Subscribed(t)' = Subscribed(t) /\ begin' = begin /\ end' = end /\ pc' = pc
      BY <1>1, <2>1 DEF TypeOK, Subscribed, daemonVars, segmentVars
    <2>7. /\ FieldsOf("core") = {"core"} /\ FieldsOf("memory") = {"memory", "memoryTime"}
          /\ FieldsOf("qpi") = {"qpi", "qpiUtilization"}
      BY DEF FieldsOf
    <2>8. AttachedTo(c) /\ lastUpdatedClientTsc_[c] <= end[t]
      BY <1>1, <1>6, <2>1 DEF ClientInv, AttachedTo
    <2>9. ASSUME NEW f \in Taken(c)'
          PROVE  lastUpdatedClientTsc_[c] <= new[f].to /\ new[f].to <= begin[t]
      <3>1. f \in Fields /\ f \in Subscribed(t)
        BY <2>6 DEF Taken
      <3>2. CASE f \in FieldsOf(class)
        <4>1. end[t] <= sections[t][f].to /\ sections[t][f].to <= begin[t]
          BY <2>2, <3>1 DEF IInv, Data, Stamps
        <4>2. /\ end[t] \in Nat /\ begin[t] \in Nat /\ lastUpdatedClientTsc_[c] \in Nat
              /\ sections[t][f].to \in Nat
          BY <1>1, <2>2, <3>1 DEF TypeOK, Snapshots, Intervals
        <4> QED
          BY <2>4, <2>8, <3>1, <3>2, <4>1, <4>2
      <3>3. CASE f \notin FieldsOf(class)
        <4>1. f \in Taken(c)
          BY <1>6, <2>1, <2>6, <2>7, <3>1, <3>3 DEF Taken, Fields
        <4> QED
          BY <1>1, <2>4, <3>1, <3>3, <4>1 DEF ClientInv
      <3> QED
        BY <3>2, <3>3
    <2>10. ClientInv(c)' /\ Rest
      <3>1. Rest
        BY <1>1, <2>1 DEF TypeOK
      <3>2. ClientInv(c)'
        BY <1>6, <2>2, <2>6, <2>8, <2>9 DEF ClientInv, AttachedTo
      <3> QED
        BY <3>1, <3>2
    <2> QED
      BY <2>1, <2>5, <2>10, OneClient
  <1>7. CASE Again(c)
    <2>1. /\ cpc[c] = "have" /\ cpc' = [cpc EXCEPT ![c] = "wait"]
          /\ UNCHANGED <<target, lastUpdatedClientTsc_, copy>> /\ D
      BY <1>7 DEF Again, ClientGoto
    <2>2. TypeOK'
      BY <1>1, <2>1 DEF TypeOK, daemonVars, segmentVars, fileVars
    <2>3. ClientInv(c)' /\ Rest
      BY <1>1, <2>1 DEF TypeOK, ClientInv, AttachedTo, Taken, daemonVars, segmentVars
    <2> QED
      BY <2>1, <2>2, <2>3, OneClient
  <1> QED
    BY <1>2, <1>3, <1>4, <1>5, <1>6, <1>7 DEF ClientStep

THEOREM Inductive == Spec => []IInv
  <1>1. IInv /\ [Next]_vars => IInv'
    <2> SUFFICES ASSUME IInv, [Next]_vars PROVE IInv'
      OBVIOUS
    <2>1. CASE Next
      BY <2>1, DaemonIInv, ClientIInv DEF Next
    <2>2. CASE UNCHANGED vars
      <3>1. UNCHANGED <<daemonVars, segmentVars, fileVars, clientVars>>
        BY <2>2 DEF vars
      <3>2. TypeOK' /\ Alone'
        BY <3>1 DEF IInv, TypeOK, Alone, daemonVars, segmentVars, fileVars, clientVars
      <3>3. ASSUME NEW d \in Daemons PROVE Data(d)' /\ Files(d)'
        <4>1. Subscribed(d)' = Subscribed(d)
          BY <3>1 DEF Subscribed, daemonVars
        <4> QED
          BY <3>1, <4>1 DEF IInv, Data, Fresh, Stamps, Progress, Tiles, Rates, Origin, Files,
                            daemonVars, segmentVars, fileVars
      <3>4. ASSUME NEW c \in Clients PROVE ClientInv(c)'
        <4>1. Taken(c)' = Taken(c) /\ (AttachedTo(c)' <=> AttachedTo(c))
          BY <3>1 DEF Taken, AttachedTo, Subscribed, daemonVars, clientVars
        <4> QED
          BY <3>1, <4>1 DEF IInv, ClientInv, daemonVars, segmentVars, clientVars
      <3> QED
        BY <3>2, <3>3, <3>4 DEF IInv
    <2> QED
      BY <2>1, <2>2
  <1> QED
    BY InitIInv, <1>1, PTL DEF Spec
-----------------------------------------------------------------------------
\* The properties.

\* Every daemon, client and segment keeps its type.
THEOREM TypeCorrect == Spec => []TypeOK
  <1>1. IInv => TypeOK
    BY DEF IInv
  <1> QED
    BY Inductive, <1>1, PTL

\* What a client takes after read has returned is of the update it was told of
\* or of a later one.
THEOREM UpdateCorrect == Spec => []UpdateIsComplete
  <1>1. IInv => UpdateIsComplete
    <2> SUFFICES ASSUME IInv, NEW c \in Clients, NEW f \in Taken(c)
                 PROVE  copy[c][f].to >= lastUpdatedClientTsc_[c]
      BY DEF UpdateIsComplete
    <2>1. copy[c][f].to \in Nat /\ lastUpdatedClientTsc_[c] \in Nat
      BY DEF IInv, TypeOK, Snapshots, Intervals, Taken
    <2>2. lastUpdatedClientTsc_[c] <= copy[c][f].to
      BY DEF IInv, ClientInv
    <2> QED
      BY <2>1, <2>2
  <1> QED
    BY Inductive, <1>1, PTL

\* A client that still finds lastUpdateTscBegin no newer than its stamp has
\* taken one whole update.
THEOREM WholeCorrect == Spec => []UnmovedBeginMeansWhole
  <1>1. IInv => UnmovedBeginMeansWhole
    <2> SUFFICES ASSUME IInv, NEW c \in Clients, AttachedTo(c),
                        begin[target[c]] <= lastUpdatedClientTsc_[c], NEW f \in Taken(c)
                 PROVE  copy[c][f].to = lastUpdatedClientTsc_[c]
      BY DEF UnmovedBeginMeansWhole
    <2>1. target[c] \in Daemons
      BY DEF IInv, TypeOK, AttachedTo
    <2>2. /\ copy[c][f].to \in Nat /\ lastUpdatedClientTsc_[c] \in Nat
          /\ begin[target[c]] \in Nat
      BY <2>1 DEF IInv, TypeOK, Snapshots, Intervals, Taken
    <2>3. lastUpdatedClientTsc_[c] <= copy[c][f].to /\ copy[c][f].to <= begin[target[c]]
      BY DEF IInv, ClientInv
    <2> QED
      BY <2>2, <2>3
  <1> QED
    BY Inductive, <1>1, PTL

\* In difference mode the bytes of memory are divided by the length of the
\* interval they were counted in, from the second update on.
THEOREM RateCorrect == Spec => []RateMatchesBytes
  <1>1. IInv => RateMatchesBytes
    BY DEF IInv, Data, Rates, RateMatchesBytes
  <1> QED
    BY Inductive, <1>1, PTL

\* In absolute mode all values are counted from the same snapshot.
THEOREM OriginCorrect == Spec => []AbsoluteKeepsItsOrigin
  <1>1. IInv => AbsoluteKeepsItsOrigin
    BY DEF IInv, Data, Origin, AbsoluteKeepsItsOrigin
  <1> QED
    BY Inductive, <1>1, PTL

\* A daemon that has left through its exit handler has removed its segment, and
\* the file does not name it.
THEOREM ExitCorrect == Spec => []ExitReleases
  <1>1. IInv => ExitReleases
    BY DEF IInv, Files, ExitReleases
  <1> QED
    BY Inductive, <1>1, PTL

\* While no two daemons were alive at once, the file names the one that serves.
THEOREM FileCorrect == Spec => []FileNamesServing
  <1>1. IInv => FileNamesServing
    BY DEF IInv, Files, FileNamesServing
  <1> QED
    BY Inductive, <1>1, PTL

\* In difference mode each published interval starts where the one before ended.
THEOREM TileCorrect == Spec => DifferencesTile
  <1>1. ASSUME IInv, [Next]_vars, NEW d \in Daemons, NEW f \in {"core", "memory", "qpi"},
               mode_[d] = "difference", sections[d][f].to # 0, sections'[d][f] # sections[d][f]
        PROVE  sections'[d][f].from = sections[d][f].to
    <2>1. GetPCMCore(d) \/ GetPCMMemory(d) \/ GetPCMQPI(d)
      <3>1. Next
        BY <1>1 DEF vars, segmentVars
      <3>2. PICK e \in Daemons : GetPCMCore(e) \/ GetPCMMemory(e) \/ GetPCMQPI(e)
        <4>1. ASSUME NEW c \in Clients, ClientStep(c) \/ Quit(c) PROVE sections' = sections
          BY <4>1 DEF ClientStep, OpenAndRead, Connect, Read, Take, Again, Quit, segmentVars
        <4>2. ASSUME NEW e \in Daemons,
                     \/ Start(e) \/ Fail(e) \/ RemoveSegment(e) \/ Crash(e)
                     \/ RemoveIdFile(e) \/ OpenIdFile(e) \/ WriteIdFile(e) \/ AttachAndSetup(e)
                     \/ ProgramAndSnapshot(e) \/ BeginUpdate(e) \/ UpdatePCMState(e)
                     \/ EndUpdate(e) \/ UnlinkIdFile(e)
              PROVE  sections' = sections
          BY <4>2 DEF Start, RemoveIdFile, OpenIdFile, WriteIdFile, AttachAndSetup, Fail,
               ProgramAndSnapshot, RemoveSegment, UnlinkIdFile, Crash, BeginUpdate,
               UpdatePCMState, EndUpdate, segmentVars
        <4> QED
          BY <1>1, <3>1, <4>1, <4>2 DEF Next, DaemonStep
      <3>3. e = d
        BY <1>1, <3>2, CoreData, MemoryData, QPIData
      <3> QED
        BY <3>2, <3>3
    <2>2. TypeOK /\ Data(d)
      BY <1>1 DEF IInv
    <2>3. f \in Fields
      BY DEF Fields
    <2>4. CASE GetPCMCore(d)
      <3> DEFINE new == [g \in Fields |->
                IF g = "core" THEN Interval(states[d].before, states[d].after)
                              ELSE sections[d][g]]
      <3>0. FieldsOf("core") = {"core"} /\ "core" \in subscribers_[d]
        BY <1>1, <2>4 DEF GetPCMCore, Publish, FieldsOf
      <3>1. sections' = [sections EXCEPT ![d] = new]
        <4>1. sections' = [sections EXCEPT ![d] = [g \in Fields |->
                 IF g \in {"core"}
                 THEN [core |-> Interval(states[d].before, states[d].after)][g]
                 ELSE sections[d][g]]]
          BY <2>2, <2>4, <3>0 DEF GetPCMCore, Publish, TypeOK
        <4>2. new = [g \in Fields |->
                 IF g \in {"core"}
                 THEN [core |-> Interval(states[d].before, states[d].after)][g]
                 ELSE sections[d][g]]
          OBVIOUS
        <4> QED
          BY <4>1, <4>2
      <3>2. /\ new["core"] = Interval(states[d].before, states[d].after)
            /\ \A g \in Fields \ {"core"} : new[g] = sections[d][g]
        BY DEF Fields
      <3> HIDE DEF new
      <3>3. sections'[d] = new
        BY <2>2, <3>1 DEF TypeOK
      <3>4. f = "core" /\ sections'[d][f] = Interval(states[d].before, states[d].after)
        BY <1>1, <2>3, <3>2, <3>3
      <3>5. pc[d] = "core"
        BY <2>4 DEF GetPCMCore, Goto
      <3> QED
        BY <1>1, <2>2, <3>4, <3>5 DEF Data, Tiles, Interval
    <2>5. CASE GetPCMMemory(d)
      <3>1. sections' = [sections EXCEPT ![d] = [g \in Fields |->
                IF g \in {"memory", "memoryTime"}
                THEN [memory |-> Interval(states[d].uncoreBefore, round[d]),
                      memoryTime |-> Interval(states[d].timeBefore, states[d].timeAfter)][g]
                ELSE sections[d][g]]]
        BY <1>1, <2>2, <2>5 DEF GetPCMMemory, Publish, FieldsOf, TypeOK
      <3>2. f = "memory" /\ sections'[d][f].from = states[d].uncoreBefore
        BY <1>1, <2>2, <2>3, <3>1 DEF TypeOK, Interval
      <3>3. pc[d] = "memory"
        BY <2>5 DEF GetPCMMemory, Goto
      <3> QED
        BY <1>1, <2>2, <3>2, <3>3 DEF Data, Tiles
    <2>6. CASE GetPCMQPI(d)
      <3>1. sections' = [sections EXCEPT ![d] = [g \in Fields |->
                IF g \in {"qpi", "qpiUtilization"}
                THEN [qpi |-> Interval(states[d].before, states[d].after),
                      qpiUtilization |-> Interval(states[d].qpiBefore, states[d].after)][g]
                ELSE sections[d][g]]]
        BY <1>1, <2>2, <2>6 DEF GetPCMQPI, Publish, FieldsOf, TypeOK
      <3>2. f = "qpi" /\ sections'[d][f].from = states[d].before
        BY <1>1, <2>2, <2>3, <3>1 DEF TypeOK, Interval
      <3>3. pc[d] = "qpi"
        BY <2>6 DEF GetPCMQPI, Goto
      <3> QED
        BY <1>1, <2>2, <3>2, <3>3 DEF Data, Tiles
    <2> QED
      BY <2>1, <2>4, <2>5, <2>6
  <1>2. IInv /\ [Next]_vars =>
          [\A d \in Daemons : \A f \in {"core", "memory", "qpi"} :
             mode_[d] = "difference" /\ sections[d][f].to # 0 /\ sections'[d][f] # sections[d][f] =>
                sections'[d][f].from = sections[d][f].to]_vars
    BY <1>1
  <1> QED
    BY Inductive, <1>2, PTL DEF Spec, DifferencesTile

-----------------------------------------------------------------------------
\* How an update reaches a client that waits.

\* The update at hand is newer than the one that was published last.
NewRound == \A d \in Daemons : pc[d] \in Updating => end[d] < round[d]

\* The stamp the client polls for is there.
HasNews(c) == cpc[c] = "wait" /\ end[target[c]] > lastUpdatedClientTsc_[c]

NewsReaches(c) == cpc[c] = "wait" =>
    /\ EndUpdate(target[c]) => HasNews(c)'
    /\ HasNews(c) => HasNews(c)' \/ cpc'[c] # "wait"

LEMMA NextNewRound == IInv /\ NewRound /\ [Next]_vars => NewRound'
  <1> SUFFICES ASSUME IInv, NewRound, [Next]_vars PROVE NewRound'
    OBVIOUS
  <1>0. TypeOK
    BY DEF IInv
  <1>1. CASE UNCHANGED <<pc, end, round>>
    BY <1>1 DEF NewRound
  <1>2. ASSUME NEW d \in Daemons, BeginUpdate(d) PROVE NewRound'
    <2>1. /\ end[d] \in Nat /\ begin[d] \in Nat /\ round[d] \in Nat /\ end[d] <= round[d]
      BY <1>0 DEF TypeOK, Snapshots, IInv, Data, Stamps
    <2>2. /\ end' = end /\ round' = [round EXCEPT ![d] = @ + 1]
          /\ pc' = [pc EXCEPT ![d] = "update"]
      BY <1>2 DEF BeginUpdate, Goto
    <2> QED
      BY <1>0, <2>1, <2>2 DEF TypeOK, NewRound
  <1>3. ASSUME NEW d \in Daemons, UNCHANGED <<end, round>>, pc' = [pc EXCEPT ![d] = pc'[d]],
               pc[d] \in Updating \/ pc'[d] \notin Updating
        PROVE  NewRound'
    BY <1>0, <1>3 DEF TypeOK, NewRound
  <1>4. ASSUME NEW d \in Daemons,
               \/ UpdatePCMState(d) \/ GetPCMCore(d) \/ GetPCMMemory(d) \/ GetPCMQPI(d)
        PROVE  NewRound'
    <2>1. UNCHANGED <<end, round>> /\ pc[d] \in Updating
      BY <1>4 DEF UpdatePCMState, GetPCMCore, GetPCMMemory, GetPCMQPI, Publish, Goto,
                  Updating, segmentVars
    <2>2. pc' = [pc EXCEPT ![d] = pc'[d]]
      BY <1>0, <1>4 DEF UpdatePCMState, GetPCMCore, GetPCMMemory, GetPCMQPI, Goto, TypeOK
    <2> QED
      BY <1>3, <2>1, <2>2
  <1>5. ASSUME NEW d \in Daemons, EndUpdate(d) \/ ProgramAndSnapshot(d) PROVE NewRound'
    <2>1. /\ pc' = [pc EXCEPT ![d] = "sleep"]
          /\ \A e \in Daemons \ {d} : end'[e] = end[e] /\ round'[e] = round[e]
      BY <1>0, <1>5 DEF EndUpdate, ProgramAndSnapshot, Goto, TypeOK, segmentVars
    <2> QED
      BY <1>0, <2>1 DEF TypeOK, NewRound, Updating
  <1>6. ASSUME NEW d \in Daemons,
               \/ Start(d) \/ RemoveIdFile(d) \/ OpenIdFile(d) \/ WriteIdFile(d)
               \/ AttachAndSetup(d) \/ UnlinkIdFile(d) \/ Fail(d) \/ RemoveSegment(d) \/ Crash(d)
        PROVE  NewRound'
    <2>1. UNCHANGED <<end, round>>
      BY <1>6 DEF Start, RemoveIdFile, OpenIdFile, WriteIdFile, AttachAndSetup, UnlinkIdFile,
                  Fail, RemoveSegment, Crash, segmentVars
    <2>2. \E p : p \notin Updating /\ pc' = [pc EXCEPT ![d] = p]
      BY <1>6 DEF Start, RemoveIdFile, OpenIdFile, WriteIdFile, AttachAndSetup, UnlinkIdFile,
                  Fail, RemoveSegment, Crash, Goto, Updating
    <2> QED
      BY <1>0, <2>1, <2>2 DEF TypeOK, NewRound
  <1>7. ASSUME NEW c \in Clients, ClientStep(c) \/ Quit(c) PROVE NewRound'
    BY <1>1, <1>7 DEF ClientStep, OpenAndRead, Connect, Read, Take, Again, Quit,
                      daemonVars, segmentVars
  <1>8. CASE UNCHANGED vars
    BY <1>1, <1>8 DEF vars, daemonVars, segmentVars
  <1> QED
    BY <1>2, <1>4, <1>5, <1>6, <1>7, <1>8 DEF Next, DaemonStep

\* A daemon's step: the stamps do not go back, and the end of an update makes a
\* new one.
LEMMA DaemonNews ==
    ASSUME IInv, NewRound, NEW d \in Daemons, NEW c \in Clients,
           Start(d) \/ DaemonStep(d) \/ Fail(d) \/ RemoveSegment(d) \/ Crash(d)
    PROVE  NewsReaches(c)
  <1>0. Moves(d)
    BY SetupMoves, UpdateMoves DEF DaemonStep
  <1> SUFFICES ASSUME cpc[c] = "wait"
               PROVE  /\ EndUpdate(target[c]) => HasNews(c)'
                      /\ HasNews(c) => HasNews(c)'
    BY DEF NewsReaches
  <1>1. target[c] \in Daemons /\ lastUpdatedClientTsc_[c] <= end[target[c]]
    BY DEF IInv, TypeOK, ClientInv, AttachedTo
  <1>2. UNCHANGED <<cpc, target, lastUpdatedClientTsc_>>
    BY <1>0 DEF Moves, OnlyOf, clientVars
  <1>3. /\ \A e \in Daemons : end[e] \in Nat /\ end'[e] \in Nat /\ round[e] \in Nat
        /\ lastUpdatedClientTsc_[c] \in Nat
    BY <1>0 DEF IInv, TypeOK, Moves, Snapshots
  <1>4. end[target[c]] <= end'[target[c]]
    BY <1>0, <1>1, <1>3 DEF Moves, OnlyOf
  <1>5. EndUpdate(target[c]) => end[target[c]] < end'[target[c]]
    BY <1>1 DEF EndUpdate, Goto, NewRound, Updating, IInv, TypeOK
  <1> QED
    BY <1>1, <1>2, <1>3, <1>4, <1>5 DEF HasNews

\* A client that waits misses no update, for any number of daemons and clients:
\* the end of an update leaves a stamp that differs from every stamp the client
\* was told of, and that stays so until the client has looked, whatever is
\* published meanwhile and whoever stops (the safety half of WaitingIsServed).
THEOREM NewsCorrect == Spec => [][\A c \in Clients : NewsReaches(c)]_vars
  <1>1. ASSUME IInv, NewRound, Next, NEW c \in Clients PROVE NewsReaches(c)
    <2>1. CASE \E d \in Daemons :
                  Start(d) \/ DaemonStep(d) \/ Fail(d) \/ RemoveSegment(d) \/ Crash(d)
      BY <1>1, <2>1, DaemonNews
    <2>2. ASSUME NEW k \in Clients, ClientStep(k) \/ Quit(k) PROVE NewsReaches(c)
      <3> USE <1>1 DEF IInv, TypeOK
      <3>1. UNCHANGED <<pc, end>>
        BY <2>2 DEF ClientStep, OpenAndRead, Connect, Read, Take, Again, Quit,
                    daemonVars, segmentVars
      <3>2. cpc[c] = "wait" => target[c] \in Daemons
        OBVIOUS
      <3>3. cpc[c] = "wait" => ~EndUpdate(target[c])
        BY <3>1, <3>2 DEF EndUpdate, Goto
      <3>4. cpc[c] = "wait" => cpc'[c] # "wait" \/
                (cpc'[c] = "wait" /\ target'[c] = target[c]
                    /\ lastUpdatedClientTsc_'[c] = lastUpdatedClientTsc_[c])
        BY <2>2 DEF ClientStep, OpenAndRead, Connect, Read, Take, Again, Quit, ClientGoto
      <3> QED
        BY <3>1, <3>3, <3>4 DEF NewsReaches, HasNews
    <2> QED
      BY <1>1, <2>1, <2>2 DEF Next
  <1>2. IInv /\ NewRound /\ [Next]_vars => [\A c \in Clients : NewsReaches(c)]_vars
    BY <1>1
  <1>3. Init => NewRound
    BY DEF Init, NewRound, Updating
  <1> QED
    BY Inductive, NextNewRound, <1>2, <1>3, PTL DEF Spec
=============================================================================
