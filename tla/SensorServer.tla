----------------------------- MODULE SensorServer -----------------------------
(***************************************************************************)
(* pcm-sensor-server: one pool of threads works off one queue that holds   *)
(* the connections, the periodic fetcher, which never leaves its thread,   *)
(* and the counter reads that a connection or the fetcher queues and waits *)
(* for in a thread of the same pool.  A signal handler stops the fetcher   *)
(* and calls exit, whose static destructor queues one null item per thread *)
(* and joins the threads.  It runs in a thread that may hold the mutex of  *)
(* the queue, of the samples, or of the registers that a read needs.       *)
(*                                                                         *)
(* HTTP is a request that asks for the current counters, for the           *)
(* difference over some seconds, for a page, or is refused.  Left out: the *)
(* socket numbers, the second signal, the clock (a second is a sample).    *)
(***************************************************************************)
EXTENDS Naturals, Sequences, FiniteSets

CONSTANTS Workers, Conns, Main,
          Asks,         \* what a client may ask for: "page", "current", "seconds"
          Endless,      \* connections whose client may go on asking for ever
          Kept,         \* samples that are kept: 30
          Reads,        \* counter reads of one aggregation
          MaxSamples    \* (bound) samples the fetcher takes

ASSUME SizesAssumption ==
    /\ Kept \in Nat \ {0} /\ Reads \in Nat \ {0} /\ MaxSamples \in Nat
    /\ Endless \subseteq Conns /\ Asks \in [Conns -> SUBSET {"page", "current", "seconds"}]

\* getInstance makes a pool of 64 threads; the main thread is not one of them.
ASSUME ThreadsAssumption ==
    /\ Workers # {} /\ IsFiniteSet(Workers)
    /\ Main \notin Workers /\ "none" \notin Workers \cup {Main}

VARIABLES
    workQ,      \* ThreadPool::workQ_
    doing, at,  \* the item each worker has, and where it is in it
    toAdd, open,\* reads it still has to queue; reads it queued that are not done
    asked,      \* seconds that the connection of a worker asks for
    conns,      \* connections: "new", "accepted" by the main thread, "queued", and
                \* "seen" to: refused, answered, or given up
    listening,  \* an accept can succeed
    agVector,   \* HTTPServer::agVector_, as sample numbers
    agLock,     \* the holder of agVectorMutex_, or Main for nobody
    samples,    \* samples taken
    exit,       \* PeriodicCounterFetcher::exit_
    signalled,  \* the thread that runs the handler, or "none"
    holds,      \* what that thread had locked: "nothing", the "queue" (qMutex_) or
                \* the "counters" (a lock of the registers it read)
    nulls,      \* null items the destructor has queued
    joins,      \* threads it joins before its own, or all
    gone        \* the process is gone

pool == <<workQ, doing, at, toAdd, open>>
clients == <<asked, conns, listening>>
data == <<agVector, agLock, samples>>
stop == <<exit, signalled, holds, nulls, joins, gone>>
vars == <<pool, clients, data, stop>>

Item(kind, of) == [kind |-> kind, of |-> of]
Idle == Item("idle", Main)
Ended == Item("ended", Main)
Null == Item("null", Main)
Fetcher == Item("fetcher", Main)
Items == {Null, Fetcher} \cup {Item("connection", c) : c \in Conns} \cup {Item("read", w) : w \in Workers}

Init ==
    /\ workQ = <<Fetcher>>
    /\ doing = [w \in Workers |-> Idle] /\ at = [w \in Workers |-> "start"]
    /\ toAdd = [w \in Workers |-> 0] /\ open = [w \in Workers |-> 0]
    /\ asked = [w \in Workers |-> 0]
    /\ conns = [c \in Conns |-> "new"] /\ listening = TRUE
    /\ agVector = <<>> /\ agLock = Main /\ samples = 0
    /\ exit = FALSE /\ signalled = "none" /\ holds = "nothing" /\ nulls = 0 /\ joins = {} /\ gone = FALSE

\* A worker that runs the signal handler does nothing else any more.
Runs(w) == ~gone /\ signalled # w
Goto(w, to) == at' = [at EXCEPT ![w] = to]

-----------------------------------------------------------------------------
\* HTTPServer::run in the main thread, until the handler interrupts it

\* Whose constructor waits for the first byte, or who is to be queued.
InHand(c) == ~gone /\ signalled # Main /\ conns[c] = "accepted"

\* Once the handler has closed the socket only an accept that had begun succeeds.
Accept(c) ==
    /\ ~gone /\ signalled # Main /\ listening
    /\ conns[c] = "new" /\ \A b \in Conns : ~InHand(b)
    /\ conns' = [conns EXCEPT ![c] = "accepted"]
    /\ listening' = (signalled = "none")
    /\ UNCHANGED <<pool, asked, data, stop>>

\* The constructor throws: TLS, or not a byte until the timeout.
Refuse(c) ==
    /\ InHand(c)
    /\ conns' = [conns EXCEPT ![c] = "seen"]
    /\ UNCHANGED <<pool, asked, listening, data, stop>>

AddWork(c) ==
    /\ InHand(c) /\ holds # "queue"
    /\ conns' = [conns EXCEPT ![c] = "queued"]
    /\ workQ' = Append(workQ, Item("connection", c))
    /\ UNCHANGED <<doing, at, toAdd, open, asked, listening, data, stop>>

-----------------------------------------------------------------------------
\* The pool

\* Mutant of RetrieveWork: a null item does not end the thread.
RetrieveWorkOn(w) ==
    /\ Runs(w) /\ doing[w] = Idle /\ workQ # <<>> /\ holds # "queue"
    /\ doing' = [doing EXCEPT ![w] = IF Head(workQ) = Null THEN Idle ELSE Head(workQ)]
    /\ workQ' = Tail(workQ)
    /\ Goto(w, "start")
    /\ UNCHANGED <<toAdd, open, clients, data, stop>>

RetrieveWork(w) ==
    /\ Runs(w) /\ doing[w] = Idle /\ workQ # <<>> /\ holds # "queue"
    /\ doing' = [doing EXCEPT ![w] = IF Head(workQ) = Null THEN Ended ELSE Head(workQ)]
    /\ workQ' = Tail(workQ)
    /\ Goto(w, "start")
    /\ UNCHANGED <<toAdd, open, clients, data, stop>>

Has(w, kind, where) == Runs(w) /\ doing[w].kind = kind /\ at[w] = where
Finish(w) == doing' = [doing EXCEPT ![w] = Idle] /\ Goto(w, "start")

\* LambdaJob: the future of the one who queued it is ready.
ReadCounters(w) ==
    /\ Has(w, "read", "start")
    /\ Finish(w)
    /\ open' = [open EXCEPT ![doing[w].of] = @ - 1]
    /\ UNCHANGED <<workQ, toAdd, clients, data, stop>>

\* The read needs a lock that the handler's thread will not give back.
AwaitCounters(w) ==
    /\ Has(w, "read", "start") /\ holds = "counters"
    /\ Goto(w, "locked")
    /\ UNCHANGED <<workQ, doing, toAdd, open, clients, data, stop>>

-----------------------------------------------------------------------------
\* Aggregator::dispatch, by the fetcher or a connection

BeginDispatch(w) == toAdd' = [toAdd EXCEPT ![w] = Reads] /\ Goto(w, "dispatch")

Dispatch(w) ==
    /\ Runs(w) /\ at[w] = "dispatch" /\ toAdd[w] > 0 /\ holds # "queue"
    /\ workQ' = Append(workQ, Item("read", w))
    /\ toAdd' = [toAdd EXCEPT ![w] = @ - 1]
    /\ open' = [open EXCEPT ![w] = @ + 1]
    /\ UNCHANGED <<doing, at, clients, data, stop>>

Dispatched(w) == Runs(w) /\ at[w] = "dispatch" /\ toAdd[w] = 0 /\ open[w] = 0

-----------------------------------------------------------------------------
\* PeriodicCounterFetcher::execute, HTTPServer::addAggregator

Tick(w) ==
    /\ Has(w, "fetcher", "start") /\ ~exit /\ samples < MaxSamples
    /\ BeginDispatch(w)
    /\ UNCHANGED <<workQ, doing, open, clients, data, stop>>

Leave(w) ==
    /\ Has(w, "fetcher", "start") /\ exit
    /\ Finish(w)
    /\ UNCHANGED <<workQ, toAdd, open, clients, data, stop>>

\* Mutant of Insert: the new sample goes to the end.
InsertLast(w) ==
    /\ doing[w].kind = "fetcher" /\ Dispatched(w) /\ agLock = Main
    /\ agVector' = Append(agVector, samples + 1)
    /\ agLock' = w /\ samples' = samples + 1
    /\ Goto(w, "trim")
    /\ UNCHANGED <<workQ, doing, toAdd, open, clients, stop>>

Insert(w) ==
    /\ doing[w].kind = "fetcher" /\ Dispatched(w) /\ agLock = Main
    /\ agVector' = <<samples + 1>> \o agVector
    /\ agLock' = w /\ samples' = samples + 1
    /\ Goto(w, "trim")
    /\ UNCHANGED <<workQ, doing, toAdd, open, clients, stop>>

\* Mutant of Trim: one sample less is kept.
TrimOneMore(w) ==
    /\ Has(w, "fetcher", "trim")
    /\ agVector' = IF Len(agVector) >= Kept THEN SubSeq(agVector, 1, Kept - 1) ELSE agVector
    /\ agLock' = Main
    /\ Goto(w, "start")
    /\ UNCHANGED <<workQ, doing, toAdd, open, samples, clients, stop>>

Trim(w) ==
    /\ Has(w, "fetcher", "trim")
    /\ agVector' = IF Len(agVector) > Kept THEN SubSeq(agVector, 1, Len(agVector) - 1) ELSE agVector
    /\ agLock' = Main
    /\ Goto(w, "start")
    /\ UNCHANGED <<workQ, doing, toAdd, open, samples, clients, stop>>

-----------------------------------------------------------------------------
\* HTTPConnection::execute

Conn(w) == doing[w].of

\* The client has closed or leaves, is silent for the timeout, or its request is refused
\* without an answer: no Host, an exception while it is read.
Close(w) ==
    /\ Has(w, "connection", "start")
    /\ Finish(w)
    /\ conns' = [conns EXCEPT ![Conn(w)] = "seen"]
    /\ UNCHANGED <<workQ, toAdd, open, asked, listening, data, stop>>

Request(w, what, where, seconds) ==
    /\ Has(w, "connection", "start")
    /\ what \in Asks[Conn(w)]
    /\ asked' = [asked EXCEPT ![w] = seconds]
    /\ Goto(w, where)
    /\ UNCHANGED <<workQ, doing, open, conns, listening, data, stop>>

GetPage(w) == Request(w, "page", "answer", 0) /\ UNCHANGED toAdd
GetCurrent(w) == Request(w, "current", "dispatch", 0) /\ toAdd' = [toAdd EXCEPT ![w] = Reads]

\* 1 to 30 seconds are accepted.
GetPerSecond(w) == \E seconds \in 1 .. Kept : Request(w, "seconds", "wait", seconds) /\ UNCHANGED toAdd

HaveCurrent(w) ==
    /\ doing[w].kind = "connection" /\ Dispatched(w)
    /\ Goto(w, "answer")
    /\ UNCHANGED <<workQ, doing, toAdd, open, clients, data, stop>>

\* The size is read without the mutex.
EnoughSamples(w) ==
    /\ Has(w, "connection", "wait")
    /\ Len(agVector) >= asked[w] + 1
    /\ Goto(w, "pair")
    /\ UNCHANGED <<workQ, doing, toAdd, open, clients, data, stop>>

GetAggregators(w) ==
    /\ Has(w, "connection", "pair") /\ agLock = Main
    /\ Goto(w, "answer")
    /\ asked' = [asked EXCEPT ![w] = 0]
    /\ UNCHANGED <<workQ, doing, toAdd, open, conns, listening, data, stop>>

\* The loop ends on keep-alive and goes on without: while ( !keepListening ).
Answer(w) ==
    /\ Has(w, "connection", "answer")
    /\ conns' = [conns EXCEPT ![Conn(w)] = "seen"]
    /\ Goto(w, "start")
    /\ \/ doing' = [doing EXCEPT ![w] = Idle]
       \/ UNCHANGED doing
    /\ UNCHANGED <<workQ, toAdd, open, asked, listening, data, stop>>

-----------------------------------------------------------------------------
\* SignalHandler::handleSignal, exit and ThreadPool::~ThreadPool

\* What a thread may have locked where it is; what it was about to queue or to
\* take with the mutex of the queue, it might as well not have.
Locks(t) ==
    \/ holds' = "nothing"
    \/ holds' = "queue" /\ IF t = Main THEN \E c \in Conns : InHand(c)
                           ELSE doing[t] = Idle \/ (at[t] = "dispatch" /\ toAdd[t] > 0)
    \/ holds' = "counters" /\ t # Main /\ doing[t].kind = "read"

\* The handler runs in any thread.  An accept that had begun may still return.
HandleSignal(t) ==
    /\ ~gone /\ signalled = "none"
    /\ t \in Workers => doing[t] # Ended
    /\ exit' = TRUE /\ signalled' = t
    /\ Locks(t)
    /\ listening' = (t # Main /\ \A c \in Conns : ~InHand(c))
    /\ UNCHANGED <<pool, asked, conns, data, nulls, joins, gone>>

\* After the last null item it joins all threads, or, in a worker, those before
\* its own: at the join of itself it fails.
CountNull ==
    /\ ~gone /\ signalled # "none" /\ holds # "queue" /\ nulls < Cardinality(Workers)
    /\ nulls' = nulls + 1
    /\ joins' \in IF nulls + 1 < Cardinality(Workers) THEN {joins}
                 ELSE IF signalled = Main THEN {Workers} ELSE SUBSET (Workers \ {signalled})
    /\ UNCHANGED <<doing, at, toAdd, open, clients, data, exit, signalled, holds, gone>>

\* Mutant of AddNull: one thread gets none.
AddNullButOne == CountNull /\ workQ' = IF nulls = 0 THEN workQ ELSE Append(workQ, Null)

\* Mutant of AddNull: the null items overtake the work.
AddNullFirst == CountNull /\ workQ' = <<Null>> \o workQ

AddNull == CountNull /\ workQ' = Append(workQ, Null)

\* All joined: the process ends; at the join of itself it is terminated.
Joined ==
    /\ ~gone /\ nulls = Cardinality(Workers)
    /\ \A w \in joins : doing[w] = Ended
    /\ gone' = TRUE
    /\ UNCHANGED <<pool, clients, data, exit, signalled, holds, nulls, joins>>

-----------------------------------------------------------------------------
WorkerStep(w) ==
    \/ RetrieveWork(w) \/ ReadCounters(w) \/ AwaitCounters(w) \/ Dispatch(w)
    \/ Tick(w) \/ Leave(w) \/ Insert(w) \/ Trim(w)
    \/ Close(w) \/ GetPage(w) \/ GetCurrent(w) \/ GetPerSecond(w)
    \/ HaveCurrent(w) \/ EnoughSamples(w) \/ GetAggregators(w) \/ Answer(w)

Stopping == AddNull \/ Joined

Next ==
    \/ \E c \in Conns : Accept(c) \/ Refuse(c) \/ AddWork(c)
    \/ \E w \in Workers : WorkerStep(w)
    \/ \E t \in Workers \cup {Main} : HandleSignal(t)
    \/ Stopping

\* Threads run; a client that says nothing more is given up after the timeout,
\* and one that is not endless leaves some time.
Leaves(c) == \E w \in Workers : doing[w] = Item("connection", c) /\ Close(w)
Fairness == /\ \A w \in Workers : WF_vars(WorkerStep(w))
            /\ \A c \in Conns \ Endless : SF_vars(Leaves(c))
            /\ WF_vars(Stopping)
Spec == Init /\ [][Next]_vars
FairSpec == Spec /\ Fairness

-----------------------------------------------------------------------------
Queued(item) == \E i \in DOMAIN workQ : workQ[i] = item
Count(w) == Cardinality({i \in DOMAIN workQ : workQ[i] = Item("read", w)})
            + Cardinality({v \in Workers : doing[v] = Item("read", w)})

TypeOK ==
    /\ workQ \in Seq(Items)
    /\ doing \in [Workers -> Items \cup {Idle, Ended}]
    /\ at \in [Workers -> {"start", "dispatch", "trim", "wait", "pair", "answer", "locked"}]
    /\ toAdd \in [Workers -> 0 .. Reads] /\ open \in [Workers -> 0 .. Reads]
    /\ asked \in [Workers -> 0 .. Kept]
    /\ conns \in [Conns -> {"new", "accepted", "queued", "seen"}]
    /\ listening \in BOOLEAN /\ holds \in {"nothing", "queue", "counters"}
    /\ agVector \in Seq(1 .. MaxSamples) /\ Len(agVector) <= Kept + 1
    /\ agLock \in Workers \cup {Main} /\ samples \in 0 .. MaxSamples
    /\ exit \in BOOLEAN /\ gone \in BOOLEAN
    /\ signalled \in Workers \cup {Main, "none"}
    /\ nulls \in 0 .. Cardinality(Workers) /\ joins \subseteq Workers

\* What ties the futures to the reads: the reads a worker waits for are those
\* in the queue and those another worker has, no more, no less (topology.h
\* 462-522, topology.cpp 45-91).
FuturesMatch == \A w \in Workers : open[w] = Count(w)

\* A worker that waits for reads that others have to do, for samples, or for
\* a mutex of a thread that the signal handler has interrupted.
Waits(w) ==
    \/ at[w] = "dispatch" /\ toAdd[w] = 0 /\ open[w] > 0
    \/ at[w] = "wait" /\ Len(agVector) < asked[w] + 1
    \/ at[w] = "pair" /\ agLock = signalled
    \/ at[w] = "locked"

\* A worker whose client need not leave.
Serves(w) == doing[w].kind = "connection" /\ Conn(w) \in Endless
Starved == \A w \in Workers : Waits(w) \/ Serves(w)

\* A worker that cannot take another step.
Blocked(w) ==
    \/ signalled = w \/ doing[w] = Ended
    \/ doing[w] = Idle /\ (workQ = <<>> \/ holds = "queue")
    \/ at[w] = "dispatch" /\ toAdd[w] > 0 /\ holds = "queue"
    \/ at[w] = "dispatch" /\ toAdd[w] = 0 /\ open[w] > 0
    \/ at[w] = "dispatch" /\ toAdd[w] = 0 /\ doing[w] = Fetcher /\ agLock # Main
    \/ at[w] = "wait" /\ Len(agVector) < asked[w] + 1
    \/ at[w] = "pair" /\ agLock # Main
    \/ at[w] = "locked"

\* When nothing moves any more after the destructor has queued its null items,
\* every thread it joins has ended or is in one of the four waits: none sits
\* before an empty queue for want of a null item, none waits for a mutex whose
\* holder could go on (threadpool.h 58-72, 85-105).
HangsOnlyInWaits ==
    nulls = Cardinality(Workers) /\ ~gone /\ (\A w \in Workers : Blocked(w)) =>
        \A w \in joins : doing[w] = Ended \/ Waits(w)

\* What a client is given for X seconds are two samples that lie X samples
\* apart, however the fetcher inserts and drops samples between the look at the
\* size and the copy - for every X but the largest, which only a look between
\* the insertion and the drop lets through (pcm-sensor-server.cpp 2699-2723).
SamplesApart ==
    [][\A w \in Workers : at[w] = "pair" /\ at'[w] = "answer" /\ asked[w] < Kept =>
         asked[w] + 1 <= Len(agVector) /\ agVector[1] - agVector[asked[w] + 1] = asked[w]]_vars

\* A server that ends by way of its main thread has seen to every connection
\* but the one its main thread had accepted and not yet queued: the null items
\* queue behind all others (threadpool.h 60-72, pcm-sensor-server.cpp 2788-2818).
ExitLosesNothing == gone /\ signalled = Main => \A c \in Conns : conns[c] # "queued"

\* A connection waits for samples, and not for all that are kept.
AsksFewer(c) == \E w \in Workers :
    doing[w] = Item("connection", c) /\ at[w] = "wait" /\ asked[w] < Kept

\* Who asks for fewer seconds than are kept does not wait for ever, unless the
\* server stops or, from some time on, every thread of the pool waits, for reads
\* that no thread is left to do, or serves a client that does not leave
\* (pcm-sensor-server.cpp 2610, 2711-2723).
PeriodicAnswered ==
    \A c \in Conns : []<>~AsksFewer(c) \/ <>[](exit \/ Starved)

\* After a signal the process ends, unless the handler interrupted a thread that
\* had locked the queue, for which its own destructor then waits, or a thread
\* that is to be joined never ends: it serves a client that does not leave, or
\* waits for samples of the fetcher that has left, for reads that were queued
\* behind the null items or that the handler's own thread was to do, or for a
\* mutex that thread holds (pcm-sensor-server.cpp 2740-2752, threadpool.h 80-90).
StopEnds ==
    <>[](exit => \/ gone \/ holds = "queue"
                 \/ \E w \in joins : doing[w] # Ended /\ (Waits(w) \/ Serves(w)))
=============================================================================
