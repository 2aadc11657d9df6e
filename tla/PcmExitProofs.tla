--------------------------- MODULE PcmExitProofs ----------------------------
(***************************************************************************)
(* Theorems about how pcm-memory ends, for every number of sockets and of  *)
(* worker threads.  The invariant has one part per theorem, on top of the  *)
(* types and of two facts they share: where the handlers are installed, and *)
(* that a worker handles a signal only on behalf of a busy main thread.    *)
(***************************************************************************)
EXTENDS PcmExit, SequenceTheorems, TLAPS

Late == {"request", "system", "loop", "exit"}

\* Some exit_cleanup is in progress.
Ending == \E t \in Threads : stack[t] # <<>>

\* The instance exists from its place on, and nothing is programmed before.
InstanceInv ==
    /\ initialized <=> pc \notin {"start", "construct"}
    /\ pc \in {"start", "construct"} => programmed = {}

\* A worker handles a signal only while the main thread handles another one, or
\* waits in system().
WorkersInv ==
    \A w \in Workers :
        stack[w] # <<>> => stack["main"] # <<>> \/ pc \in {"system", "loop", "exit"}

\* What is still programmed is still to be cleaned by every call in progress.
TodoInv ==
    /\ \A t \in Threads : \A i \in DOMAIN stack[t] :
            stack[t][i].at = "clean" => programmed \subseteq stack[t][i].todo
    /\ EndsClean

\* A SIGCHLD that can reach the handler is the external program's.
ChldInv ==
    /\ pc \in {"start", "construct", "program", "block", "spawn"} => child = "none"
    /\ "CHLD" \in pending => child = "exited" \/ pc \in {"system", "loop", "exit"}
    /\ pc \in Late \cup {"int"} => disp["CHLD"] = "default"
    /\ OwnCommandsDoNotEndIt

\* A blocked PCM starts no cleanup before its external program exited.
BlockedInv ==
    /\ blocked => mode = "blocked" /\ pc \notin {"start", "construct", "program", "block"}
    /\ blocked /\ pc \in Late \cup {"chld", "int"} => child = "exited"
    /\ blocked /\ Ending => child = "exited"
    /\ BlockedOutlivesChild

\* Where a signal can kill.
DispInv ==
    /\ disp["TERM"] # "handler" => pc = "start" \/ Ending
    /\ disp["INT"] # "handler" => pc \in Late \cup {"start"} \/ Ending
    /\ pc = "exit" => stack["main"] # <<>>
    /\ DirtyOnlyWhenKilled

IInv == TypeOK /\ InstanceInv /\ WorkersInv /\ TodoInv /\ ChldInv /\ BlockedInv /\ DispInv

-----------------------------------------------------------------------------
\* The calls in progress, before and after one more is begun in thread t.
LEMMA Push ==
    ASSUME stack \in [Threads -> Seq(Frames)], NEW t \in Threads, NEW f \in Frames,
           stack' = [stack EXCEPT ![t] = Append(@, f)]
    PROVE  /\ stack' \in [Threads -> Seq(Frames)]
           /\ stack'[t] # <<>>
           /\ \A u \in Threads : u # t => stack'[u] = stack[u]
           /\ \A u \in Threads : \A i \in DOMAIN stack'[u] :
                \/ i \in DOMAIN stack[u] /\ stack'[u][i] = stack[u][i]
                \/ u = t /\ i = Len(stack[t]) + 1 /\ stack'[u][i] = f
  <1>1. stack[t] \in Seq(Frames) /\ stack'[t] = Append(stack[t], f)
    OBVIOUS
  <1>2. /\ Append(stack[t], f) \in Seq(Frames)
        /\ Len(Append(stack[t], f)) = Len(stack[t]) + 1
        /\ \A i \in 1 .. Len(stack[t]) : Append(stack[t], f)[i] = stack[t][i]
        /\ Append(stack[t], f)[Len(stack[t]) + 1] = f
    BY <1>1, AppendProperties
  <1>3. DOMAIN stack'[t] = 1 .. Len(stack[t]) + 1 /\ DOMAIN stack[t] = 1 .. Len(stack[t])
    BY <1>1, <1>2
  <1>4. \A i \in DOMAIN stack'[t] :
            \/ i \in DOMAIN stack[t] /\ stack'[t][i] = stack[t][i]
            \/ i = Len(stack[t]) + 1 /\ stack'[t][i] = f
    BY <1>1, <1>2, <1>3, LenProperties
  <1> QED
    BY <1>1, <1>2, <1>3, <1>4, EmptySeq

\* The same for a step of the topmost call of thread t.
LEMMA Replace ==
    ASSUME stack \in [Threads -> Seq(Frames)], NEW t \in Threads, NEW f \in Frames,
           stack[t] # <<>>, SetTop(t, f)
    PROVE  /\ stack' \in [Threads -> Seq(Frames)]
           /\ Len(stack[t]) \in DOMAIN stack[t]
           /\ \A u \in Threads : stack'[u] = <<>> <=> stack[u] = <<>>
           /\ \A u \in Threads : DOMAIN stack'[u] = DOMAIN stack[u]
           /\ \A u \in Threads : \A i \in DOMAIN stack[u] :
                \/ ~(u = t /\ i = Len(stack[t])) /\ stack'[u][i] = stack[u][i]
                \/ u = t /\ i = Len(stack[t]) /\ stack'[u][i] = f
  <1>1. stack[t] \in Seq(Frames) /\ stack'[t] = [stack[t] EXCEPT ![Len(stack[t])] = f]
    BY DEF SetTop
  <1>2. Len(stack[t]) \in 1 .. Len(stack[t]) /\ DOMAIN stack[t] = 1 .. Len(stack[t])
    BY <1>1, EmptySeq, LenProperties
  <1>3. stack'[t] \in Seq(Frames) /\ Len(stack'[t]) = Len(stack[t])
    BY <1>1, <1>2, ExceptSeq
  <1>4. \A u \in Threads : u # t => stack'[u] = stack[u]
    BY DEF SetTop
  <1>5. stack' \in [Threads -> Seq(Frames)]
    BY <1>3 DEF SetTop
  <1> QED
    BY <1>1, <1>2, <1>3, <1>4, <1>5, EmptySeq DEF SetTop

-----------------------------------------------------------------------------
LEMMA InitIInv == Init => IInv
  <1> SUFFICES ASSUME Init PROVE IInv
    OBVIOUS
  <1>1. \A t \in Threads : stack[t] = <<>> /\ DOMAIN stack[t] = {}
    BY EmptySeq DEF Init
  <1>2. TypeOK
    BY <1>1, EmptySeq DEF Init, TypeOK, Modes, Places, Signals
  <1> QED
    BY <1>1, <1>2 DEF Init, IInv, InstanceInv, WorkersInv, TodoInv, ChldInv, BlockedInv,
        DispInv, EndsClean, OwnCommandsDoNotEndIt, BlockedOutlivesChild,
        DirtyOnlyWhenKilled, InHandler, Ending, Late, Signals, Threads

\* mainThrows, while no handler runs on top of it.
LEMMA MainIInv ==
    ASSUME IInv, Main
    PROVE  IInv'
  <1> USE DEF IInv, TypeOK, InstanceInv, WorkersInv, TodoInv, ChldInv, BlockedInv,
        DispInv, EndsClean, OwnCommandsDoNotEndIt, BlockedOutlivesChild,
        DirtyOnlyWhenKilled, InHandler, Ending, Late, Places, Signals, Threads, external, At
  <1>1. CASE set_signal_handlers
    BY <1>1 DEF set_signal_handlers
  <1>2. CASE getInstance
    BY <1>2 DEF getInstance
  <1>3. CASE Programmed
    BY <1>3 DEF Programmed
  <1>4. CASE setBlocked
    BY <1>4 DEF setBlocked
  <1>5. CASE MySystem
    BY <1>5 DEF MySystem
  <1>6. CASE Waited
    BY <1>6 DEF Waited
  <1>7. CASE DefaultChld
    BY <1>7 DEF DefaultChld
  <1>8. CASE DefaultInt
    BY <1>8 DEF DefaultInt
  <1>9. CASE System
    BY <1>9 DEF System
  <1>10. CASE CommandEnds
    BY <1>10 DEF CommandEnds
  <1>11. CASE \E s \in Sockets : Program(s)
    <2>1. \A t \in Threads : stack[t] = <<>>
      BY <1>11 DEF Program
    <2>2. \A t \in Threads : DOMAIN stack[t] = {}
      BY <2>1
    <2> QED
      BY <1>11, <2>1, <2>2 DEF Program
  <1>12. CASE LoopEnds
    <2> DEFINE f == [by |-> "exit", at |-> "restore", todo |-> {}]
    <2>1. f \in Frames /\ "main" \in Threads /\ stack' = [stack EXCEPT !["main"] = Append(@, f)]
      BY <1>12 DEF LoopEnds, Called, Frames
    <2>2. /\ stack' \in [Threads -> Seq(Frames)]
          /\ stack'["main"] # <<>>
          /\ \A u \in Threads : u # "main" => stack'[u] = stack[u]
          /\ \A u \in Threads : \A i \in DOMAIN stack'[u] :
                \/ i \in DOMAIN stack[u] /\ stack'[u][i] = stack[u][i]
                \/ u = "main" /\ i = Len(stack["main"]) + 1 /\ stack'[u][i] = f
      BY <2>1, Push
    <2> QED
      BY <1>12, <2>2 DEF LoopEnds
  <1> QED
    BY <1>1, <1>2, <1>3, <1>4, <1>5, <1>6, <1>7, <1>8, <1>9, <1>10, <1>11, <1>12 DEF Main

\* A signal is sent, or the external program exits.
LEMMA OutsideIInv ==
    ASSUME IInv, \/ \E s \in {"INT", "TERM"} : Send(s)
                 \/ ChildExits
                 \/ \E s \in Sockets : ChildCleans(s)
    PROVE  IInv'
  <1> USE DEF IInv, TypeOK, InstanceInv, WorkersInv, TodoInv, ChldInv, BlockedInv,
        DispInv, EndsClean, OwnCommandsDoNotEndIt, BlockedOutlivesChild,
        DirtyOnlyWhenKilled, InHandler, Ending, Late, Places, Signals, Threads, external
  <1>1. CASE \E s \in {"INT", "TERM"} : Send(s)
    BY <1>1 DEF Send
  <1>2. CASE ChildExits
    BY <1>2 DEF ChildExits
  <1>3. ASSUME NEW s \in Sockets, ChildCleans(s) PROVE IInv'
    BY <1>3 DEF ChildCleans
  <1> QED
    BY <1>1, <1>2, <1>3

LEMMA DeliverIInv ==
    ASSUME IInv, NEW t \in Threads, NEW s \in Signals, Deliver(t, s)
    PROVE  IInv'
  <1> DEFINE f == [by |-> s, at |-> "restore", todo |-> {}]
  <1>1. f \in Frames /\ f.by = s /\ f.at = "restore"
    BY DEF Frames
  <1>2. ASSUME stack' = [stack EXCEPT ![t] = Append(@, f)]
        PROVE  /\ stack' \in [Threads -> Seq(Frames)]
               /\ stack'[t] # <<>>
               /\ \A u \in Threads : u # t => stack'[u] = stack[u]
               /\ \A u \in Threads : \A i \in DOMAIN stack'[u] :
                    \/ i \in DOMAIN stack[u] /\ stack'[u][i] = stack[u][i]
                    \/ u = t /\ i = Len(stack[t]) + 1 /\ stack'[u][i] = f
    <2>1. stack \in [Threads -> Seq(Frames)]
      BY DEF IInv, TypeOK
    <2> HIDE DEF f
    <2> QED
      BY <1>1, <1>2, <2>1, Push
  <1> USE DEF IInv, TypeOK, InstanceInv, WorkersInv, TodoInv, ChldInv, BlockedInv,
        DispInv, EndsClean, OwnCommandsDoNotEndIt, BlockedOutlivesChild,
        DirtyOnlyWhenKilled, InHandler, Ending, Late, Places, Signals, Threads, external
  <1>3. CASE disp[s] = "handler" /\ ~(initialized /\ blocked)
    <2>1. stack' = [stack EXCEPT ![t] = Append(@, f)]
      BY <1>3 DEF Deliver, SigINTHandler, DefaultAction
    <2> HIDE DEF f
    <2>2. /\ stack' \in [Threads -> Seq(Frames)]
          /\ stack'[t] # <<>>
          /\ \A u \in Threads : u # t => stack'[u] = stack[u]
          /\ \A u \in Threads : \A i \in DOMAIN stack'[u] :
                \/ i \in DOMAIN stack[u] /\ stack'[u][i] = stack[u][i]
                \/ u = t /\ i = Len(stack[t]) + 1 /\ stack'[u][i] = f
      BY <1>2, <2>1
    <2>3. ~Masked(t, s) /\ (t # "main" => initialized /\ Masked("main", s))
      BY DEF Deliver, Receives
    <2>4. ~blocked
      BY <1>3
    <2>5. UNCHANGED <<mode, pc, initialized, blocked, programmed, disp, saved, external, status>>
      BY <1>3 DEF Deliver, SigINTHandler, DefaultAction
    <2>6. status = "running" /\ s \in pending /\ pending' = pending \ {s}
      BY DEF Deliver
    <2>7. TypeOK'
      <3>1. \A u \in Threads : \A i, j \in DOMAIN stack'[u] :
                stack'[u][i].by = stack'[u][j].by => i = j
        <4>1. \A u \in Threads : \A i, j \in DOMAIN stack[u] :
                stack[u][i].by = stack[u][j].by => i = j
          OBVIOUS
        <4>2. \A i \in DOMAIN stack[t] : stack[t][i].by # s
          BY <2>3 DEF Masked
        <4> HIDE DEF IInv, TypeOK, InstanceInv, WorkersInv, TodoInv, ChldInv, BlockedInv,
                DispInv, Threads
        <4> QED
          BY <1>1, <2>2, <4>1, <4>2
      <3> QED
        BY <2>2, <2>5, <2>6, <3>1
    <2>8. WorkersInv'
      <3>1. stack["main"] = <<>> => DOMAIN stack["main"] = {}
        OBVIOUS
      <3> QED
        BY <2>2, <2>3, <2>5, <3>1 DEF Masked
    <2>9. ChldInv'
      BY <1>1, <1>3, <2>2, <2>5, <2>6
    <2>10. TodoInv' /\ InstanceInv'
      BY <1>1, <2>2, <2>5, <2>6
    <2>11. BlockedInv' /\ DispInv'
      BY <2>2, <2>4, <2>5, <2>6
    <2> QED
      BY <2>7, <2>8, <2>9, <2>10, <2>11
  <1>4. CASE disp[s] = "handler" /\ initialized /\ blocked
    BY <1>4 DEF Deliver, SigINTHandler, DefaultAction
  <1>5. CASE disp[s] # "handler"
    BY <1>5 DEF Deliver, SigINTHandler, DefaultAction
  <1> QED
    BY <1>3, <1>4, <1>5

\* exit_cleanup in thread t.
LEMMA CleanupIInv ==
    ASSUME IInv, NEW t \in Threads, Cleanup(t)
    PROVE  IInv'
  <1> USE DEF IInv, TypeOK, InstanceInv, WorkersInv, TodoInv, ChldInv, BlockedInv,
        DispInv, EndsClean, OwnCommandsDoNotEndIt, BlockedOutlivesChild,
        DirtyOnlyWhenKilled, InHandler, Ending, Late, Places, Signals, Threads, external
  <1>0. Top(t) = stack[t][Len(stack[t])] /\ stack[t] # <<>> /\ status = "running"
        /\ stack[t] \in Seq(Frames)
    BY DEF Top, Cleanup, Restore, Clean, Ended, InCall
  <1>1. Len(stack[t]) \in DOMAIN stack[t] /\ Top(t) \in Frames
    BY <1>0, EmptySeq, LenProperties, ElementOfSeq
  <1>2. CASE Restore(t)
    <2> DEFINE f == [by |-> Top(t).by, at |-> "clean",
                     todo |-> IF initialized THEN Sockets ELSE {}]
    <2>1. f \in Frames /\ SetTop(t, f)
      BY <1>1, <1>2 DEF Frames, Restore
    <2>2. /\ stack' \in [Threads -> Seq(Frames)]
          /\ \A u \in Threads : stack'[u] = <<>> <=> stack[u] = <<>>
          /\ \A u \in Threads : DOMAIN stack'[u] = DOMAIN stack[u]
          /\ \A u \in Threads : \A i \in DOMAIN stack[u] :
                \/ ~(u = t /\ i = Len(stack[t])) /\ stack'[u][i] = stack[u][i]
                \/ u = t /\ i = Len(stack[t]) /\ stack'[u][i] = f
      BY <1>0, <2>1, Replace
    <2>3. \A u \in Threads : \A i \in DOMAIN stack[u] : stack'[u][i].by = stack[u][i].by
      BY <1>0, <2>2
    <2>4. programmed \subseteq f.todo
      OBVIOUS
    <2>5. disp' = [q \in Signals |-> "default"] /\ UNCHANGED <<mode, pc, initialized,
            blocked, programmed, saved, pending, external, status>>
      BY <1>2 DEF Restore
    <2>6. TypeOK'
      BY <2>2, <2>3, <2>5
    <2>7. TodoInv'
      BY <2>2, <2>4, <2>5
    <2>8. ChldInv'
      BY <2>2, <2>3, <2>5
    <2>9. InstanceInv' /\ WorkersInv' /\ BlockedInv' /\ DispInv'
      BY <1>0, <2>2, <2>5
    <2> QED
      BY <2>6, <2>7, <2>8, <2>9
  <1>3. CASE \E q \in Sockets : Clean(t, q)
    <2>0. PICK q \in Sockets : Clean(t, q)
      BY <1>3
    <2> DEFINE f == [Top(t) EXCEPT !.todo = @ \ {q}]
    <2>1. /\ f \in Frames /\ SetTop(t, f)
          /\ f.by = Top(t).by /\ f.todo = Top(t).todo \ {q}
          /\ Top(t).at = "clean"
      BY <1>1, <2>0 DEF Frames, Clean, InCall
    <2> HIDE DEF f
    <2>2. /\ stack' \in [Threads -> Seq(Frames)]
          /\ \A u \in Threads : stack'[u] = <<>> <=> stack[u] = <<>>
          /\ \A u \in Threads : DOMAIN stack'[u] = DOMAIN stack[u]
          /\ \A u \in Threads : \A i \in DOMAIN stack[u] :
                \/ ~(u = t /\ i = Len(stack[t])) /\ stack'[u][i] = stack[u][i]
                \/ u = t /\ i = Len(stack[t]) /\ stack'[u][i] = f
      BY <1>0, <2>1, Replace
    <2>3. \A u \in Threads : \A i \in DOMAIN stack[u] : stack'[u][i].by = stack[u][i].by
      BY <1>0, <2>1, <2>2
    <2>4. programmed' = programmed \ {q} /\ UNCHANGED <<mode, pc, initialized,
            blocked, disp, saved, pending, external, status>>
      BY <2>0 DEF Clean
    <2>5. TypeOK'
      BY <2>2, <2>3, <2>4
    <2>6. TodoInv'
      <3>1. programmed \subseteq Top(t).todo
        BY <1>0, <1>1, <2>1
      <3> QED
        BY <1>0, <2>1, <2>2, <2>4, <3>1
    <2>7. ChldInv'
      BY <2>2, <2>3, <2>4
    <2>8. InstanceInv' /\ WorkersInv' /\ BlockedInv' /\ DispInv'
      BY <1>0, <2>2, <2>4
    <2> QED
      BY <2>5, <2>6, <2>7, <2>8
  <1>4. CASE Ended(t)
    <2>1. programmed \subseteq Top(t).todo /\ Top(t).todo = {}
      BY <1>0, <1>1, <1>4 DEF Ended, InCall
    <2> QED
      BY <1>0, <1>4, <2>1 DEF Ended
  <1> QED
    BY <1>2, <1>3, <1>4 DEF Cleanup

LEMMA NextIInv == IInv /\ [Next]_vars => IInv'
  <1> SUFFICES ASSUME IInv, [Next]_vars PROVE IInv'
    OBVIOUS
  <1>1. CASE Next
    BY <1>1, MainIInv, OutsideIInv, DeliverIInv, CleanupIInv DEF Next
  <1>2. CASE UNCHANGED vars
    BY <1>2 DEF vars, IInv, TypeOK, InstanceInv, WorkersInv, TodoInv, ChldInv, BlockedInv,
        DispInv, EndsClean, OwnCommandsDoNotEndIt, BlockedOutlivesChild,
        DirtyOnlyWhenKilled, InHandler, Ending, Late, external
  <1> QED
    BY <1>1, <1>2

-----------------------------------------------------------------------------
THEOREM Invariance == Spec => []IInv
  <1> QED
    BY InitIInv, NextIInv, PTL DEF Spec

\* The types, and that no thread is twice in a call made by the same signal.
THEOREM TypeCorrect == Spec => []TypeOK
  <1>1. IInv => TypeOK
    BY DEF IInv
  <1> QED
    BY <1>1, Invariance, PTL

\* Whoever ends pcm-memory through exit_cleanup leaves no unit programmed, for any
\* number of sockets, threads and nested or simultaneous handlers.
THEOREM CleanCorrect == Spec => []EndsClean
  <1>1. IInv => EndsClean
    BY DEF IInv, TodoInv
  <1> QED
    BY <1>1, Invariance, PTL

\* Units stay programmed only when the process was killed where it can be.
THEOREM DirtyCorrect == Spec => []DirtyOnlyWhenKilled
  <1>1. IInv => DirtyOnlyWhenKilled
    BY DEF IInv, DispInv
  <1> QED
    BY <1>1, Invariance, PTL

\* set_uncore_freq.sh never ends the pcm-memory that runs it.
THEOREM CommandsCorrect == Spec => []OwnCommandsDoNotEndIt
  <1>1. IInv => OwnCommandsDoNotEndIt
    BY DEF IInv, ChldInv
  <1> QED
    BY <1>1, Invariance, PTL

\* A blocked pcm-memory that ended by itself had waited for its program.
THEOREM BlockedCorrect == Spec => []BlockedOutlivesChild
  <1>1. IInv => BlockedOutlivesChild
    BY DEF IInv, BlockedInv
  <1> QED
    BY <1>1, Invariance, PTL

-----------------------------------------------------------------------------
\* How TERM comes to an end.

\* system() gives SIGINT back to what it was before, and that is no handler.
SavedInv ==
    /\ saved # "handler"
    /\ pc \in Late => disp["INT"] # "handler"
    /\ disp["TERM"] # "ignore"

\* Nothing is handled before the handlers are set.
StartInv == pc = "start" => ~Ending /\ \A s \in Signals : disp[s] # "handler"

\* No signal has a handler any more.
GivenUp == pc # "start" /\ \A s \in Signals : disp[s] # "handler"

\* Whoever cleans has given up the handlers before.
GivenUpInv == (\E t \in Threads : \E i \in DOMAIN stack[t] : stack[t][i].at = "clean") => GivenUp

\* A call of exit_cleanup that is in progress is still there, is still the same,
\* and has no more to do than before.
CallsStay ==
    \A t \in Threads : \A i \in DOMAIN stack[t] :
        /\ i \in DOMAIN stack'[t] /\ stack'[t][i].by = stack[t][i].by
        /\ stack[t][i].at = "clean" =>
                stack'[t][i].at = "clean" /\ stack'[t][i].todo \subseteq stack[t][i].todo

\* Handlers are not set again.
StaysGivenUp == GivenUp => GivenUp' /\ \A t \in Threads : stack'[t] # stack[t] =>
    LoopEnds \/ Cleanup(t)

\* Who consumes TERM starts a cleanup or is killed.
TermTaken == "TERM" \in pending /\ "TERM" \notin pending' /\ mode # "blocked" =>
    Ending' \/ status' = "killed"

TermInv == IInv /\ SavedInv /\ StartInv /\ GivenUpInv
TermMove == SavedInv' /\ StartInv' /\ GivenUpInv' /\ CallsStay /\ StaysGivenUp /\ TermTaken

LEMMA Appended ==
    ASSUME stack \in [Threads -> Seq(Frames)], NEW t \in Threads, NEW f \in Frames,
           stack' = [stack EXCEPT ![t] = Append(@, f)]
    PROVE  \A u \in Threads : \A i \in DOMAIN stack[u] :
                i \in DOMAIN stack'[u] /\ stack'[u][i] = stack[u][i]
  <1>1. stack[t] \in Seq(Frames) /\ stack'[t] = Append(stack[t], f)
    OBVIOUS
  <1>2. /\ Len(Append(stack[t], f)) = Len(stack[t]) + 1
        /\ \A i \in 1 .. Len(stack[t]) : Append(stack[t], f)[i] = stack[t][i]
        /\ Append(stack[t], f) \in Seq(Frames)
    BY <1>1, AppendProperties
  <1>3. DOMAIN stack'[t] = 1 .. Len(stack[t]) + 1 /\ DOMAIN stack[t] = 1 .. Len(stack[t])
    BY <1>1, <1>2
  <1>4. \A i \in DOMAIN stack[t] : i \in DOMAIN stack'[t] /\ stack'[t][i] = stack[t][i]
    BY <1>1, <1>2, <1>3, LenProperties
  <1> QED
    BY <1>4

LEMMA InitTermInv == Init => TermInv
  <1> SUFFICES ASSUME Init PROVE SavedInv /\ StartInv /\ GivenUpInv
    BY InitIInv DEF TermInv
  <1>1. \A t \in Threads : DOMAIN stack[t] = {}
    BY EmptySeq DEF Init
  <1> QED
    BY <1>1 DEF Init, SavedInv, StartInv, GivenUpInv, Ending, Late, Signals

\* A step that leaves the calls and the handlers alone, and perhaps TERM.
LEMMA SameCallsButTerm ==
    ASSUME TermInv, UNCHANGED <<stack, disp, saved>>,
           pc # "start" => pc' # "start", pc' \in Late => pc \in Late
    PROVE  SavedInv' /\ StartInv' /\ GivenUpInv' /\ CallsStay /\ StaysGivenUp
  BY DEF TermInv, SavedInv, StartInv, Ending, GivenUpInv, GivenUp, CallsStay, StaysGivenUp

LEMMA SameCalls ==
    ASSUME TermInv, UNCHANGED <<stack, disp, saved>>,
           "TERM" \in pending => "TERM" \in pending',
           pc # "start" => pc' # "start", pc' \in Late => pc \in Late
    PROVE  TermMove
  BY SameCallsButTerm DEF TermMove, TermTaken

LEMMA MainTermMove == ASSUME TermInv, Main PROVE TermMove
  <1> USE DEF TermInv, IInv, TypeOK, At
  <1>0. \A t \in Threads : \A i \in DOMAIN stack[t] : stack[t][i].at = "clean" => GivenUp
    BY DEF GivenUpInv
  <1>1. CASE set_signal_handlers
    <2>1. /\ pc = "start" /\ pc' = "construct" /\ UNCHANGED <<stack, saved, pending>>
          /\ disp' = [s \in Signals |-> "handler"]
      BY <1>1 DEF set_signal_handlers
    <2>2. ~GivenUp
      BY <2>1 DEF GivenUp
    <2>3. SavedInv'
      BY <2>1 DEF SavedInv, Late, Signals
    <2>4. GivenUpInv' /\ CallsStay
      BY <1>0, <2>1, <2>2 DEF GivenUpInv, CallsStay
    <2> QED
      BY <2>1, <2>2, <2>3, <2>4 DEF TermMove, StartInv, StaysGivenUp, TermTaken
  <1>2. CASE getInstance \/ Programmed \/ setBlocked \/ MySystem \/ Waited
    BY <1>2, SameCalls DEF getInstance, Programmed, setBlocked, MySystem, Waited, Late
  <1>3. CASE \E s \in Sockets : Program(s)
    BY <1>3, SameCalls DEF Program
  <1>4. CASE DefaultChld \/ DefaultInt
    <2>1. /\ pc \in {"chld", "int"} /\ pc' # "start" /\ UNCHANGED <<stack, saved, pending>>
          /\ \E s \in Signals : disp' = [disp EXCEPT ![s] = "default"]
          /\ pc' \in Late => disp' = [disp EXCEPT !["INT"] = "default"]
      BY <1>4 DEF DefaultChld, DefaultInt, Signals, Late
    <2>2. GivenUp => GivenUp'
      BY <2>1 DEF GivenUp
    <2> QED
      BY <1>0, <2>1, <2>2 DEF TermMove, SavedInv, StartInv, GivenUpInv, CallsStay, StaysGivenUp,
            TermTaken, Signals
  <1>5. CASE System
    <2>1. /\ pc \in Late /\ pc' = "system" /\ UNCHANGED <<stack, pending>>
          /\ disp' = [disp EXCEPT !["INT"] = "ignore"] /\ saved' = disp["INT"]
      BY <1>5 DEF System, Late
    <2>2. GivenUp => GivenUp'
      BY <2>1 DEF GivenUp
    <2> QED
      BY <1>0, <2>1, <2>2 DEF TermMove, SavedInv, StartInv, GivenUpInv, CallsStay, StaysGivenUp,
            TermTaken, Signals
  <1>6. CASE CommandEnds
    <2>1. /\ pc' = "loop" /\ UNCHANGED <<stack, saved>> /\ pending \subseteq pending'
          /\ disp' = [disp EXCEPT !["INT"] = saved]
      BY <1>6 DEF CommandEnds
    <2>2. GivenUp => GivenUp'
      BY <2>1 DEF GivenUp, SavedInv
    <2> QED
      BY <1>0, <2>1, <2>2 DEF TermMove, SavedInv, StartInv, GivenUpInv, CallsStay, StaysGivenUp,
            TermTaken, Signals
  <1>7. CASE LoopEnds
    <2> DEFINE f == [by |-> "exit", at |-> "restore", todo |-> {}]
    <2>1. /\ f \in Frames /\ "main" \in Threads /\ f.at = "restore"
          /\ stack' = [stack EXCEPT !["main"] = Append(@, f)]
          /\ pc \in Late /\ pc' \in Late /\ pc # "start" /\ pc' # "start"
          /\ UNCHANGED <<disp, saved, pending>>
      BY <1>7 DEF LoopEnds, Called, Frames, Threads, Late
    <2> HIDE DEF f
    <2>2. \A u \in Threads : \A i \in DOMAIN stack'[u] :
                \/ i \in DOMAIN stack[u] /\ stack'[u][i] = stack[u][i]
                \/ u = "main" /\ i = Len(stack["main"]) + 1 /\ stack'[u][i] = f
      <3>1. stack \in [Threads -> Seq(Frames)]
        OBVIOUS
      <3> HIDE DEF TermInv, IInv, TypeOK
      <3> QED
        BY <3>1, <2>1, Push
    <2>3. \A u \in Threads : \A i \in DOMAIN stack[u] :
                i \in DOMAIN stack'[u] /\ stack'[u][i] = stack[u][i]
      <3>1. stack \in [Threads -> Seq(Frames)]
        OBVIOUS
      <3> HIDE DEF TermInv, IInv, TypeOK
      <3> QED
        BY <3>1, <2>1, Appended
    <2> QED
      BY <1>7, <2>1, <2>2, <2>3 DEF TermMove, SavedInv, StartInv, GivenUpInv, GivenUp, CallsStay,
            StaysGivenUp, TermTaken
  <1> QED
    BY <1>1, <1>2, <1>3, <1>4, <1>5, <1>6, <1>7 DEF Main

LEMMA DeliverTermMove ==
    ASSUME TermInv, NEW t \in Threads, NEW s \in Signals, Deliver(t, s)
    PROVE  TermMove
  <1> USE DEF TermInv, IInv, TypeOK
  <1> DEFINE f == [by |-> s, at |-> "restore", todo |-> {}]
  <1>1. /\ f \in Frames /\ f.at = "restore"
        /\ UNCHANGED <<mode, pc, initialized, blocked, disp, saved>>
        /\ pending' = pending \ {s}
    BY DEF Deliver, Frames
  <1>2. CASE SigINTHandler(t, s) /\ ~(initialized /\ blocked)
    <2>1. disp[s] = "handler" /\ stack' = [stack EXCEPT ![t] = Append(@, f)]
      BY <1>2 DEF SigINTHandler
    <2> HIDE DEF f
    <2>2. /\ stack'[t] # <<>>
          /\ \A u \in Threads : \A i \in DOMAIN stack'[u] :
                \/ i \in DOMAIN stack[u] /\ stack'[u][i] = stack[u][i]
                \/ u = t /\ i = Len(stack[t]) + 1 /\ stack'[u][i] = f
      <3>1. stack \in [Threads -> Seq(Frames)]
        OBVIOUS
      <3> HIDE DEF TermInv, IInv, TypeOK
      <3> QED
        BY <3>1, <1>1, <2>1, Push
    <2>3. \A u \in Threads : \A i \in DOMAIN stack[u] :
                i \in DOMAIN stack'[u] /\ stack'[u][i] = stack[u][i]
      <3>1. stack \in [Threads -> Seq(Frames)]
        OBVIOUS
      <3> HIDE DEF TermInv, IInv, TypeOK
      <3> QED
        BY <3>1, <1>1, <2>1, Appended
    <2>4. ~GivenUp
      BY <2>1 DEF GivenUp
    <2>5. SavedInv' /\ StartInv'
      BY <1>1, <2>1 DEF SavedInv, StartInv
    <2>6. GivenUpInv' /\ CallsStay
      <3>1. \A u \in Threads : \A i \in DOMAIN stack[u] : stack[u][i].at # "clean"
        BY <2>4 DEF GivenUpInv
      <3>2. \A u \in Threads : \A i \in DOMAIN stack'[u] : stack'[u][i].at # "clean"
        <4>1. f.at = "restore"
          BY <1>1
        <4> QED
          BY <2>2, <3>1, <4>1
      <3> QED
        BY <2>3, <3>1, <3>2 DEF GivenUpInv, CallsStay
    <2>7. TermTaken
      BY <2>2 DEF TermTaken, Ending
    <2>8. StaysGivenUp
      BY <2>4 DEF StaysGivenUp
    <2> QED
      BY <2>5, <2>6, <2>7, <2>8 DEF TermMove
  <1>3. CASE SigINTHandler(t, s) /\ initialized /\ blocked
    <2>1. UNCHANGED stack /\ mode = "blocked"
      BY <1>3 DEF SigINTHandler, BlockedInv
    <2>2. TermTaken
      BY <2>1 DEF TermTaken
    <2>3. SavedInv' /\ StartInv' /\ GivenUpInv' /\ CallsStay /\ StaysGivenUp
      BY <1>1, <2>1, SameCallsButTerm
    <2> QED
      BY <2>2, <2>3 DEF TermMove
  <1>4. CASE DefaultAction(s)
    <2>1. UNCHANGED stack /\ disp[s] # "handler"
      BY <1>4 DEF DefaultAction
    <2>2. s = "TERM" => status' = "killed"
      <3>1. disp["TERM"] # "ignore"
        BY DEF SavedInv
      <3> QED
        BY <1>4, <2>1, <3>1 DEF DefaultAction, Signals
    <2>3. TermTaken
      BY <1>1, <2>2 DEF TermTaken
    <2>4. SavedInv' /\ StartInv' /\ GivenUpInv' /\ CallsStay /\ StaysGivenUp
      BY <1>1, <2>1, SameCallsButTerm
    <2> QED
      BY <2>3, <2>4 DEF TermMove
  <1> QED
    BY <1>2, <1>3, <1>4 DEF Deliver

LEMMA CleanupTermMove ==
    ASSUME TermInv, NEW t \in Threads, Cleanup(t)
    PROVE  TermMove
  <1> USE DEF TermInv, IInv, TypeOK
  <1>0. /\ Top(t) = stack[t][Len(stack[t])] /\ stack[t] # <<>> /\ stack[t] \in Seq(Frames)
        /\ UNCHANGED <<mode, pc, pending, saved>>
    BY DEF Top, Cleanup, Restore, Clean, Ended, InCall
  <1>1. Len(stack[t]) \in DOMAIN stack[t] /\ Top(t) \in Frames
    BY <1>0, EmptySeq, LenProperties, ElementOfSeq
  <1>2. CASE Restore(t)
    <2> DEFINE f == [by |-> Top(t).by, at |-> "clean",
                     todo |-> IF initialized THEN Sockets ELSE {}]
    <2>1. /\ f \in Frames /\ SetTop(t, f) /\ f.by = Top(t).by /\ f.at = "clean"
          /\ Top(t).at = "restore"
      BY <1>1, <1>2 DEF Frames, Restore, InCall
    <2> HIDE DEF f
    <2>2. /\ \A u \in Threads : DOMAIN stack'[u] = DOMAIN stack[u]
          /\ \A u \in Threads : \A i \in DOMAIN stack[u] :
                \/ ~(u = t /\ i = Len(stack[t])) /\ stack'[u][i] = stack[u][i]
                \/ u = t /\ i = Len(stack[t]) /\ stack'[u][i] = f
      BY <1>0, <2>1, Replace
    <2>3. disp' = [q \in Signals |-> "default"]
      BY <1>2 DEF Restore
    <2>4. pc # "start"
      BY <1>0 DEF StartInv, Ending
    <2>5. GivenUp' /\ SavedInv'
      BY <1>0, <2>3, <2>4 DEF GivenUp, SavedInv, Signals
    <2>6. CallsStay
      BY <1>0, <2>1, <2>2 DEF CallsStay
    <2>7. \A u \in Threads : u # t => stack'[u] = stack[u]
      BY <2>1 DEF SetTop
    <2>8. GivenUp => StaysGivenUp
      BY <2>5, <2>7 DEF StaysGivenUp
    <2> QED
      BY <1>0, <2>5, <2>6, <2>8 DEF TermMove, StartInv, GivenUpInv, GivenUp, StaysGivenUp, TermTaken
  <1>3. CASE \E q \in Sockets : Clean(t, q)
    <2>0. PICK q \in Sockets : Clean(t, q)
      BY <1>3
    <2> DEFINE f == [Top(t) EXCEPT !.todo = @ \ {q}]
    <2>1. /\ f \in Frames /\ SetTop(t, f)
          /\ f.by = Top(t).by /\ f.todo \subseteq Top(t).todo
          /\ Top(t).at = "clean" /\ f.at = "clean"
      BY <1>1, <2>0 DEF Frames, Clean, InCall
    <2> HIDE DEF f
    <2>2. /\ \A u \in Threads : DOMAIN stack'[u] = DOMAIN stack[u]
          /\ \A u \in Threads : \A i \in DOMAIN stack[u] :
                \/ ~(u = t /\ i = Len(stack[t])) /\ stack'[u][i] = stack[u][i]
                \/ u = t /\ i = Len(stack[t]) /\ stack'[u][i] = f
      BY <1>0, <2>1, Replace
    <2>3. UNCHANGED disp
      BY <2>0 DEF Clean
    <2>4. GivenUp
      BY <1>0, <1>1, <2>1 DEF GivenUpInv
    <2>5. GivenUp' /\ SavedInv'
      BY <1>0, <2>3, <2>4 DEF GivenUp, SavedInv
    <2>6. CallsStay
      BY <1>0, <2>1, <2>2 DEF CallsStay
    <2>7. \A u \in Threads : u # t => stack'[u] = stack[u]
      BY <2>1 DEF SetTop
    <2>8. GivenUp => StaysGivenUp
      BY <2>5, <2>7 DEF StaysGivenUp
    <2> QED
      BY <1>0, <2>5, <2>6, <2>8 DEF TermMove, StartInv, GivenUpInv, GivenUp, StaysGivenUp, TermTaken
  <1>4. CASE Ended(t)
    BY <1>4, SameCalls DEF Ended
  <1> QED
    BY <1>2, <1>3, <1>4 DEF Cleanup

LEMMA NextTermMove == TermInv /\ [Next]_vars => TermMove
  <1> SUFFICES ASSUME TermInv, [Next]_vars PROVE TermMove
    OBVIOUS
  <1>1. CASE \E s \in {"INT", "TERM"} : Send(s)
    BY <1>1, SameCalls DEF Send
  <1>2. CASE ChildExits
    BY <1>2, SameCalls DEF ChildExits
  <1>3. CASE UNCHANGED vars
    BY <1>3, SameCalls DEF vars
  <1>4. CASE \E s \in Sockets : ChildCleans(s)
    BY <1>4, SameCalls DEF ChildCleans
  <1> QED
    BY <1>1, <1>2, <1>3, <1>4, MainTermMove, DeliverTermMove, CleanupTermMove DEF Next

\* TERM takes hold of an unblocked pcm-memory wherever it is, and for good: the
\* step that consumes it begins a cleanup or kills; a cleanup in progress, in
\* whichever thread, is never given up and never has more to do; and once the
\* handlers are given back no signal begins another one (the safety half of
\* TermEndsIt).
THEOREM TermCorrect == Spec => [][TermTaken /\ CallsStay /\ StaysGivenUp]_vars
  <1>1. TermInv /\ [Next]_vars => TermInv'
    BY NextTermMove, NextIInv DEF TermInv, TermMove
  <1>2. TermInv /\ [Next]_vars => [TermTaken /\ CallsStay /\ StaysGivenUp]_vars
    BY NextTermMove DEF TermMove
  <1> QED
    BY <1>1, <1>2, InitTermInv, PTL DEF Spec
=============================================================================
