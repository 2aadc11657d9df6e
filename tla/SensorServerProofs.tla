-------------------------- MODULE SensorServerProofs --------------------------
(***************************************************************************)
(* Theorems about SensorServer for any number of threads and connections,  *)
(* and any number of samples kept: who holds the reads that are waited     *)
(* for, that samples lie as far apart as asked, and how the pool stops.    *)
(* The queue is counted over, and what an action does to it is one of four *)
(* moves; so each part of the invariant has one argument per move.         *)
(***************************************************************************)
EXTENDS SensorServer, FiniteSetTheorems, SequenceTheorems, TLAPS

-----------------------------------------------------------------------------
\* Items

AllItems == Items \cup {Idle, Ended}

LEMMA ItemKinds ==
    /\ Null.kind = "null" /\ Fetcher.kind = "fetcher" /\ Idle.kind = "idle" /\ Ended.kind = "ended"
    /\ \A c : Item("connection", c).kind = "connection" /\ Item("connection", c).of = c
    /\ \A w : Item("read", w).kind = "read" /\ Item("read", w).of = w
  BY DEF Null, Fetcher, Idle, Ended, Item

LEMMA ItemCases ==
    ASSUME NEW x \in AllItems
    PROVE  /\ x.kind \in {"null", "fetcher", "idle", "ended", "connection", "read"}
           /\ x.kind = "null" <=> x = Null
           /\ x.kind = "fetcher" <=> x = Fetcher
           /\ x.kind = "idle" <=> x = Idle
           /\ x.kind = "ended" <=> x = Ended
           /\ x.kind = "connection" => x.of \in Conns /\ x = Item("connection", x.of)
           /\ x.kind = "read" => x.of \in Workers /\ x = Item("read", x.of)
  BY ItemKinds DEF AllItems, Items

LEMMA ItemTypes ==
    /\ Null \in Items /\ Fetcher \in Items /\ Idle \notin Items /\ Ended \notin Items
    /\ Items \subseteq AllItems /\ Idle \in AllItems /\ Ended \in AllItems
    /\ \A c \in Conns : Item("connection", c) \in Items
    /\ \A w \in Workers : Item("read", w) \in Items
  BY ItemKinds DEF AllItems, Items

-----------------------------------------------------------------------------
\* How often an item is in a queue, and how many workers have it.

InQueue(q, x) == Cardinality({i \in DOMAIN q : q[i] = x})
With(d, x)    == Cardinality({w \in Workers : d[w] = x})

\* All there is of an item; and the null items, of which a worker keeps the end.
Total(q, d, x) == InQueue(q, x) + With(d, x)
Spent(q, d)    == InQueue(q, Null) + With(d, Ended)

LEMMA QueuePlaces ==
    ASSUME NEW q \in Seq(Items), NEW x
    PROVE  /\ IsFiniteSet({i \in DOMAIN q : q[i] = x})
           /\ InQueue(q, x) \in Nat
  <1>1. IsFiniteSet(DOMAIN q)
    BY FS_Interval
  <1>2. IsFiniteSet({i \in DOMAIN q : q[i] = x})
    BY <1>1, FS_Subset
  <1> QED
    BY <1>2, FS_CardinalityType DEF InQueue

LEMMA NotInQueue ==
    ASSUME NEW q \in Seq(Items), NEW x
    PROVE  InQueue(q, x) = 0 <=> \A i \in DOMAIN q : q[i] # x
  <1> DEFINE Q == {i \in DOMAIN q : q[i] = x}
  <1>1. Cardinality(Q) = 0 <=> Q = {}
    BY QueuePlaces, FS_EmptySet
  <1> QED
    BY <1>1 DEF InQueue

LEMMA AppendCount ==
    ASSUME NEW q \in Seq(Items), NEW e \in Items, NEW x
    PROVE  InQueue(Append(q, e), x) = InQueue(q, x) + (IF e = x THEN 1 ELSE 0)
  <1> DEFINE Q == {i \in DOMAIN q : q[i] = x}
             A == {i \in DOMAIN Append(q, e) : Append(q, e)[i] = x}
             n == Len(q) + 1
  <1>1. IsFiniteSet(Q) /\ Cardinality(Q) \in Nat
    BY QueuePlaces DEF InQueue
  <1>2. n \notin Q
    OBVIOUS
  <1>3. CASE e = x
    <2>1. A = Q \cup {n}
      BY <1>3
    <2>2. Cardinality(Q \cup {n}) = Cardinality(Q) + 1
      BY <1>1, <1>2, FS_AddElement
    <2>3. InQueue(Append(q, e), x) = Cardinality(A) /\ InQueue(q, x) = Cardinality(Q)
      BY DEF InQueue
    <2> QED
      BY <1>3, <2>1, <2>2, <2>3
  <1>4. CASE e # x
    <2>1. A = Q
      BY <1>4
    <2>2. InQueue(Append(q, e), x) = Cardinality(A) /\ InQueue(q, x) = Cardinality(Q)
      BY DEF InQueue
    <2> HIDE DEF A, Q
    <2> QED
      BY <1>1, <1>4, <2>1, <2>2
  <1> QED
    BY <1>3, <1>4

LEMMA TailCount ==
    ASSUME NEW q \in Seq(Items), q # <<>>, NEW x
    PROVE  InQueue(q, x) = InQueue(Tail(q), x) + (IF Head(q) = x THEN 1 ELSE 0)
  <1> DEFINE Q == {i \in DOMAIN q : q[i] = x}
             T == {i \in DOMAIN Tail(q) : Tail(q)[i] = x}
             f == [i \in T |-> i + 1]
  <1>1. Len(q) \in Nat \ {0} /\ DOMAIN q = 1 .. Len(q) /\ Head(q) = q[1]
    OBVIOUS
  <1>2. /\ Tail(q) \in Seq(Items) /\ DOMAIN Tail(q) = 1 .. Len(q) - 1
        /\ \A i \in 1 .. Len(q) - 1 : Tail(q)[i] = q[i + 1]
    BY <1>1
  <1>3. IsFiniteSet(Q) /\ IsFiniteSet(T) /\ Cardinality(Q) \in Nat /\ Cardinality(T) \in Nat
    BY <1>2, QueuePlaces DEF InQueue
  <1>4. f \in [T -> Q \ {1}]
    BY <1>1, <1>2
  <1>5. f \in Injection(T, Q \ {1})
    BY <1>4, <1>2 DEF Injection, IsInjective
  <1>6. ASSUME NEW j \in Q \ {1} PROVE \E i \in T : f[i] = j
    <2>1. j - 1 \in T /\ f[j - 1] = j
      BY <1>1, <1>2, <1>6
    <2> QED
      BY <2>1
  <1>7. f \in Surjection(T, Q \ {1})
    BY <1>4, <1>6 DEF Surjection
  <1>8. ExistsBijection(T, Q \ {1})
    BY <1>5, <1>7 DEF Bijection, ExistsBijection
  <1>9. Cardinality(Q \ {1}) = Cardinality(T)
    BY <1>3, <1>8, FS_Bijection
  <1>10. 1 \in Q <=> Head(q) = x
    BY <1>1
  <1>11. Cardinality(Q \ {1}) = IF 1 \in Q THEN Cardinality(Q) - 1 ELSE Cardinality(Q)
    BY <1>3, FS_RemoveElement
  <1>12. InQueue(q, x) = Cardinality(Q) /\ InQueue(Tail(q), x) = Cardinality(T)
    BY DEF InQueue
  <1> HIDE DEF Q, T
  <1> QED
    BY <1>3, <1>9, <1>10, <1>11, <1>12

LEMMA CountIs ==
    ASSUME NEW w \in Workers
    PROVE  Count(w) = Total(workQ, doing, Item("read", w))
  BY DEF Count, Total, InQueue, With

LEMMA WithPlaces ==
    ASSUME NEW d, NEW x
    PROVE  /\ IsFiniteSet({w \in Workers : d[w] = x})
           /\ With(d, x) \in Nat /\ With(d, x) <= Cardinality(Workers)
           /\ With(d, x) = 0 <=> \A w \in Workers : d[w] # x
           /\ With(d, x) = Cardinality(Workers) => \A w \in Workers : d[w] = x
  <1>1. /\ IsFiniteSet({w \in Workers : d[w] = x})
        /\ With(d, x) <= Cardinality(Workers)
        /\ With(d, x) = Cardinality(Workers) => Workers = {w \in Workers : d[w] = x}
    BY ThreadsAssumption, FS_Subset DEF With
  <1>2. With(d, x) \in Nat /\ Cardinality(Workers) \in Nat
    BY <1>1, ThreadsAssumption, FS_CardinalityType DEF With
  <1>3. Cardinality({w \in Workers : d[w] = x}) = 0 <=> {w \in Workers : d[w] = x} = {}
    BY <1>1, FS_EmptySet
  <1>4. With(d, x) = 0 <=> \A w \in Workers : d[w] # x
    BY <1>3 DEF With
  <1> QED
    BY <1>1, <1>2, <1>4

\* The two agree on every other worker.
OnlyAt(w, d, f) == \A v \in Workers \ {w} : f[v] = d[v]

LEMMA WithChanged ==
    ASSUME NEW d, NEW f, NEW w \in Workers, OnlyAt(w, d, f), NEW x
    PROVE  With(f, x) = With(d, x) - (IF d[w] = x THEN 1 ELSE 0) + (IF f[w] = x THEN 1 ELSE 0)
  <1> DEFINE D == {v \in Workers : d[v] = x}
             E == {v \in Workers : f[v] = x}
             R == D \ {w}
  <1>1. IsFiniteSet(D) /\ Cardinality(D) \in Nat
    BY ThreadsAssumption, FS_Subset, FS_CardinalityType
  <1>2. /\ IsFiniteSet(R)
        /\ Cardinality(R) = Cardinality(D) - (IF d[w] = x THEN 1 ELSE 0)
    BY <1>1, FS_RemoveElement
  <1>0. With(f, x) = Cardinality(E) /\ With(d, x) = Cardinality(D)
    BY DEF With
  <1>3. CASE f[w] = x
    <2>1. E = R \cup {w}
      BY <1>3 DEF OnlyAt
    <2>2. Cardinality(E) = Cardinality(R) + 1
      BY <1>2, <2>1, FS_AddElement
    <2> HIDE DEF D, E, R
    <2> QED
      BY <1>0, <1>1, <1>2, <1>3, <2>2
  <1>4. CASE f[w] # x
    <2>1. E = R
      BY <1>4 DEF OnlyAt
    <2> HIDE DEF D, E, R
    <2> QED
      BY <1>0, <1>1, <1>2, <1>4, <2>1
  <1> QED
    BY <1>3, <1>4

-----------------------------------------------------------------------------
\* The inductive invariant

\* Where a worker can be with the item it has, and that it has nothing to queue
\* and nothing to wait for outside a dispatch.
Place(item, where, adds, opens) ==
    /\ item # Null
    /\ item.kind \in {"idle", "ended"} => where = "start"
    /\ item.kind = "read" => where \in {"start", "locked"}
    /\ item.kind = "fetcher" => where \in {"start", "dispatch", "trim"}
    /\ item.kind = "connection" => where \notin {"trim", "locked"}
    /\ where # "dispatch" => adds = 0 /\ opens = 0
    /\ adds + opens <= Reads
PlacesInv == \A w \in Workers : Place(doing[w], at[w], toAdd[w], open[w])

\* The mutex is held from the insertion to the drop; only there is one sample
\* too many.
LockInv ==
    /\ \A w \in Workers : at[w] = "trim" <=> agLock = w
    /\ Len(agVector) <= Kept + (IF agLock = Main THEN 0 ELSE 1)

\* The newest sample is the first, and none between is missing; who passed the
\* look at the size still finds as many.
SampleInv ==
    /\ \A i \in DOMAIN agVector : agVector[i] = samples + 1 - i
    /\ Len(agVector) <= samples
    /\ \A w \in Workers : doing[w] = Fetcher /\ at[w] = "dispatch" => samples < MaxSamples
    /\ \A w \in Workers : at[w] = "pair" /\ asked[w] < Kept => asked[w] + 1 <= Len(agVector)

\* There is one fetcher.
FetcherInv == Total(workQ, doing, Fetcher) <= 1

\* Every null item is in the queue or has ended a thread.
NullInv == nulls = Spent(workQ, doing)

StopInv ==
    /\ exit <=> signalled # "none"
    /\ holds = "queue" => nulls = 0 /\ exit
    /\ ~exit => nulls = 0 /\ joins = {} /\ ~gone
    /\ nulls < Cardinality(Workers) => joins = {} /\ ~gone
    /\ signalled = Main /\ nulls = Cardinality(Workers) => joins = Workers
    /\ signalled \notin joins
    /\ gone => \A w \in joins : doing[w] = Ended

\* While the main thread runs, or when it is the one that runs the handler, no
\* connection is queued behind a null item, in the queue or out of it.
OrderInv == signalled \in {Main, "none"} =>
    /\ \A i, j \in DOMAIN workQ : i < j /\ workQ[i] = Null => workQ[j].kind # "connection"
    /\ (\E w \in Workers : doing[w] = Ended) => \A j \in DOMAIN workQ : workQ[j].kind # "connection"

\* A queued connection is in the queue until a worker has it.
ConnInv == \A c \in Conns : conns[c] = "queued" =>
    \/ Queued(Item("connection", c))
    \/ \E w \in Workers : doing[w] = Item("connection", c)

IInv ==
    /\ TypeOK /\ FuturesMatch /\ PlacesInv
    /\ LockInv /\ SampleInv /\ FetcherInv
    /\ NullInv /\ StopInv /\ OrderInv /\ ConnInv

LEMMA InitIInv == Init => IInv
  <1> SUFFICES ASSUME Init PROVE IInv
    OBVIOUS
  <1> USE DEF Init
  <1>1. TypeOK
    <2>1. Cardinality(Workers) \in Nat
      BY ThreadsAssumption, FS_CardinalityType
    <2>2. workQ \in Seq(Items) /\ doing \in [Workers -> Items \cup {Idle, Ended}]
      BY ItemTypes
    <2>3. agVector \in Seq(1 .. MaxSamples) /\ Len(agVector) <= Kept + 1
      BY SizesAssumption
    <2>4. toAdd \in [Workers -> 0 .. Reads] /\ open \in [Workers -> 0 .. Reads]
      BY SizesAssumption
    <2>5. asked \in [Workers -> 0 .. Kept]
      BY SizesAssumption
    <2>6. samples \in 0 .. MaxSamples /\ nulls \in 0 .. Cardinality(Workers)
      BY <2>1, SizesAssumption
    <2> QED
      BY <2>2, <2>3, <2>4, <2>5, <2>6 DEF TypeOK
  <1>2. /\ DOMAIN workQ = {1} /\ workQ[1] = Fetcher
        /\ \A x : x # Fetcher => InQueue(workQ, x) = 0
        /\ InQueue(workQ, Fetcher) \in Nat /\ InQueue(workQ, Fetcher) <= 1
    <2>1. DOMAIN workQ = {1} /\ workQ[1] = Fetcher
      OBVIOUS
    <2>2. workQ \in Seq(Items)
      BY ItemTypes
    <2>3. ASSUME NEW x, x # Fetcher PROVE InQueue(workQ, x) = 0
      <3>1. \A i \in DOMAIN workQ : workQ[i] # x
        BY <2>1, <2>3
      <3> QED
        BY <2>2, <3>1, NotInQueue
    <2>4. {i \in DOMAIN workQ : workQ[i] = Fetcher} = {1}
      BY <2>1
    <2>5. InQueue(workQ, Fetcher) = 1
      BY <2>4, FS_Singleton DEF InQueue
    <2> QED
      BY <2>1, <2>3, <2>5
  <1>3. \A x : x # Idle => With(doing, x) = 0
    BY WithPlaces
  <1>4. FuturesMatch
    <2>1. ASSUME NEW w \in Workers PROVE open[w] = Count(w)
      <3>1. Item("read", w) # Fetcher /\ Item("read", w) # Idle
        BY ItemKinds
      <3>2. InQueue(workQ, Item("read", w)) = 0 /\ With(doing, Item("read", w)) = 0
        BY <3>1, <1>2, <1>3
      <3> QED
        BY <3>2, CountIs DEF Total
    <2> QED
      BY <2>1 DEF FuturesMatch
  <1>5. PlacesInv
    BY ItemKinds, SizesAssumption DEF PlacesInv, Place
  <1>6. LockInv /\ SampleInv
    BY ItemKinds, SizesAssumption, ThreadsAssumption DEF LockInv, SampleInv
  <1>7. FetcherInv /\ NullInv
    <2>1. Null # Fetcher /\ Fetcher # Idle /\ Ended # Idle
      BY ItemKinds
    <2>2. InQueue(workQ, Null) = 0 /\ With(doing, Fetcher) = 0 /\ With(doing, Ended) = 0
      BY <2>1, <1>2, <1>3
    <2> QED
      BY <1>2, <2>2 DEF FetcherInv, NullInv, Total, Spent
  <1>8. StopInv
    BY ThreadsAssumption DEF StopInv
  <1>9. OrderInv /\ ConnInv
    BY <1>2, ItemKinds DEF OrderInv, ConnInv
  <1> QED
    BY <1>1, <1>4, <1>5, <1>6, <1>7, <1>8, <1>9 DEF IInv

-----------------------------------------------------------------------------
\* What a step does to the queue and to the items that workers have: nothing,
\* or one of the six moves of the pool.

Stays ==
    /\ UNCHANGED <<workQ, doing, open, nulls>>
    /\ \A c \in Conns : conns'[c] = "queued" => conns[c] = "queued"

Freed(w) ==
    /\ doing[w].kind \in {"fetcher", "connection"}
    /\ doing' = [doing EXCEPT ![w] = Idle]
    /\ UNCHANGED <<workQ, open, nulls>>
    /\ \A c \in Conns : conns'[c] = "queued" => conns[c] = "queued" /\ doing[w] # Item("connection", c)

LEMMA Moves ==
    ASSUME TypeOK, [Next]_vars
    PROVE  \/ Stays
           \/ \E c \in Conns : AddWork(c)
           \/ \E w \in Workers : RetrieveWork(w)
           \/ \E w \in Workers : ReadCounters(w)
           \/ \E w \in Workers : Dispatch(w)
           \/ \E w \in Workers : Freed(w)
           \/ AddNull
  <1> USE DEF pool, clients, data, stop
  <1>0. ASSUME NEW c \in Conns, Accept(c) \/ Refuse(c) PROVE Stays
    BY <1>0 DEF Stays, Accept, Refuse, TypeOK
  <1>1. ASSUME NEW w \in Workers,
               AwaitCounters(w) \/ Tick(w) \/ Insert(w) \/ Trim(w) \/ GetPage(w) \/ GetCurrent(w) \/ GetPerSecond(w)
               \/ HaveCurrent(w) \/ EnoughSamples(w) \/ GetAggregators(w)
        PROVE  Stays
    BY <1>1 DEF Stays, AwaitCounters, Tick, Insert, Trim, GetPage, GetCurrent, GetPerSecond, Request,
                HaveCurrent, EnoughSamples, GetAggregators, BeginDispatch
  <1>2. ASSUME NEW w \in Workers, Leave(w) PROVE Freed(w)
    BY <1>2, ItemKinds DEF Freed, Leave, Has, Finish
  <1>3. ASSUME NEW w \in Workers, Close(w) PROVE Freed(w)
    BY <1>3, ItemKinds DEF Freed, Close, Has, Finish, Conn, TypeOK
  <1>4. ASSUME NEW w \in Workers, Answer(w) PROVE Freed(w) \/ Stays
    <2>1. \A c \in Conns : conns'[c] = "queued" => conns[c] = "queued" /\ doing[w] # Item("connection", c)
      BY <1>4, ItemKinds DEF Answer, Conn, TypeOK
    <2> QED
      BY <1>4, <2>1 DEF Freed, Stays, Answer, Has
  <1>5. ASSUME (\E t \in Workers \cup {Main} : HandleSignal(t)) \/ Joined \/ UNCHANGED vars
        PROVE  Stays
    BY <1>5 DEF Stays, HandleSignal, Joined, vars
  <1> QED
    BY <1>0, <1>1, <1>2, <1>3, <1>4, <1>5 DEF Next, WorkerStep, Stopping

LEMMA CountIsNext ==
    ASSUME NEW w \in Workers
    PROVE  Count(w)' = Total(workQ', doing', Item("read", w))
  BY DEF Count, Total, InQueue, With

\* How the three kinds of moves change what there is of an item.
LEMMA AppendMove ==
    ASSUME TypeOK, NEW e \in Items, workQ' = Append(workQ, e), UNCHANGED doing
    PROVE  /\ \A x : Total(workQ', doing', x) = Total(workQ, doing, x) + (IF e = x THEN 1 ELSE 0)
           /\ Spent(workQ', doing') = Spent(workQ, doing) + (IF e = Null THEN 1 ELSE 0)
  <1>1. workQ \in Seq(Items)
    BY DEF TypeOK
  <1>2. ASSUME NEW x
        PROVE  /\ InQueue(workQ', x) = InQueue(workQ, x) + (IF e = x THEN 1 ELSE 0)
               /\ InQueue(workQ, x) \in Nat
    BY <1>1, AppendCount, QueuePlaces
  <1>3. ASSUME NEW x PROVE With(doing', x) = With(doing, x) /\ With(doing, x) \in Nat
    BY WithPlaces
  <1> QED
    BY <1>2, <1>3 DEF Total, Spent

LEMMA TakeMove ==
    ASSUME TypeOK, NEW w \in Workers, RetrieveWork(w)
    PROVE  /\ \A x : x \notin {Null, Ended, Idle} => Total(workQ', doing', x) = Total(workQ, doing, x)
           /\ Spent(workQ', doing') = Spent(workQ, doing)
  <1> DEFINE h == Head(workQ)
             e == IF h = Null THEN Ended ELSE h
  <1>1. /\ workQ \in Seq(Items) /\ workQ # <<>>
        /\ h \in Items /\ workQ' = Tail(workQ) /\ workQ' \in Seq(Items)
    BY DEF TypeOK, RetrieveWork
  <1>2. doing[w] = Idle /\ doing'[w] = e /\ OnlyAt(w, doing, doing')
    BY DEF TypeOK, RetrieveWork, OnlyAt
  <1>3. e # Null /\ e # Idle /\ (e = Ended <=> h = Null) /\ Null # Ended /\ Null # Idle /\ Ended # Idle
    BY <1>1, ItemTypes, ItemKinds
  <1>4. ASSUME NEW x
        PROVE  /\ InQueue(workQ, x) = InQueue(workQ', x) + (IF h = x THEN 1 ELSE 0)
               /\ InQueue(workQ, x) \in Nat /\ InQueue(workQ', x) \in Nat
    BY <1>1, TailCount, QueuePlaces
  <1>5. ASSUME NEW x
        PROVE  /\ With(doing', x) = With(doing, x) - (IF Idle = x THEN 1 ELSE 0) + (IF e = x THEN 1 ELSE 0)
               /\ With(doing, x) \in Nat
    <2>1. With(doing', x) = With(doing, x) - (IF doing[w] = x THEN 1 ELSE 0) + (IF doing'[w] = x THEN 1 ELSE 0)
      <3> HIDE DEF e
      <3> QED
        BY <1>2, WithChanged
    <2>2. With(doing, x) \in Nat
      BY WithPlaces
    <2> HIDE DEF e
    <2> QED
      BY <1>2, <2>1, <2>2
  <1>6. ASSUME NEW x, x \notin {Null, Ended, Idle}
        PROVE  Total(workQ', doing', x) = Total(workQ, doing, x)
    <2>1. e = x <=> h = x
      BY <1>6
    <2> HIDE DEF e, h
    <2> QED
      BY <1>4, <1>5, <1>6, <2>1 DEF Total
  <1>7. Spent(workQ', doing') = Spent(workQ, doing)
    <2> HIDE DEF e, h
    <2> QED
      BY <1>3, <1>4, <1>5 DEF Spent
  <1> QED
    BY <1>6, <1>7

LEMMA FreeMove ==
    ASSUME TypeOK, NEW w \in Workers, UNCHANGED workQ, doing'[w] = Idle, OnlyAt(w, doing, doing')
    PROVE  /\ \A x : x # Idle => Total(workQ', doing', x) = Total(workQ, doing, x) - (IF doing[w] = x THEN 1 ELSE 0)
           /\ doing[w] # Ended => Spent(workQ', doing') = Spent(workQ, doing)
  <1>1. ASSUME NEW x
        PROVE  /\ With(doing', x) = With(doing, x) - (IF doing[w] = x THEN 1 ELSE 0) + (IF Idle = x THEN 1 ELSE 0)
               /\ With(doing, x) \in Nat
    <2>1. With(doing', x) = With(doing, x) - (IF doing[w] = x THEN 1 ELSE 0) + (IF doing'[w] = x THEN 1 ELSE 0)
      BY WithChanged
    <2> QED
      BY <2>1, WithPlaces
  <1>2. ASSUME NEW x PROVE InQueue(workQ', x) = InQueue(workQ, x) /\ InQueue(workQ, x) \in Nat
    BY QueuePlaces DEF TypeOK
  <1>3. Idle # Ended
    BY ItemKinds
  <1> QED
    BY <1>1, <1>2, <1>3 DEF Total, Spent

-----------------------------------------------------------------------------
\* The parts of the invariant that count, move by move

LEMMA ReadOf ==
    ASSUME TypeOK, NEW w \in Workers, ReadCounters(w)
    PROVE  /\ doing[w].of \in Workers /\ doing[w] = Item("read", doing[w].of)
           /\ doing'[w] = Idle /\ OnlyAt(w, doing, doing')
  <1>1. doing[w] \in AllItems /\ doing[w].kind = "read"
    BY DEF TypeOK, AllItems, ReadCounters, Has
  <1> QED
    BY <1>1, ItemCases DEF TypeOK, ReadCounters, Finish, OnlyAt

LEMMA FuturesMove ==
    ASSUME TypeOK, FuturesMatch, [Next]_vars
    PROVE  FuturesMatch'
  <1> DEFINE x(v) == Item("read", v)
             n(v) == Total(workQ, doing, x(v))
             m(v) == Total(workQ', doing', x(v))
  <1>a. \A v \in Workers : /\ open[v] = n(v) /\ open[v] \in Nat
                            /\ x(v) \notin {Null, Ended, Idle, Fetcher}
                            /\ x(v).kind = "read"
    BY CountIs, ItemKinds DEF FuturesMatch, TypeOK
  <1>b. DOMAIN open = Workers
    BY DEF TypeOK
  <1> SUFFICES ASSUME NEW v \in Workers PROVE open'[v] = m(v)
    BY CountIsNext DEF FuturesMatch
  <1>1. CASE Stays
    BY <1>a, <1>1 DEF Stays
  <1>2. ASSUME NEW c \in Conns, AddWork(c) PROVE open'[v] = m(v)
    <2>1. m(v) = n(v) + (IF Item("connection", c) = x(v) THEN 1 ELSE 0)
      BY <1>2, AppendMove, ItemTypes DEF AddWork
    <2>2. open' = open /\ Item("connection", c) # x(v)
      BY <1>2, ItemKinds DEF AddWork
    <2> HIDE DEF x, n, m
    <2> QED
      BY <1>a, <2>1, <2>2
  <1>3. ASSUME NEW w \in Workers, RetrieveWork(w) PROVE open'[v] = m(v)
    <2>1. m(v) = n(v) /\ open' = open
      BY <1>a, <1>3, TakeMove DEF RetrieveWork
    <2> QED
      BY <1>a, <2>1
  <1>4. ASSUME NEW w \in Workers, ReadCounters(w) PROVE open'[v] = m(v)
    <2> DEFINE u == doing[w].of
    <2>1. u \in Workers /\ doing[w] = x(u)
      BY <1>4, ReadOf
    <2>2. m(v) = n(v) - (IF doing[w] = x(v) THEN 1 ELSE 0)
      BY <1>a, <1>4, ReadOf, FreeMove DEF ReadCounters
    <2>3. doing[w] = x(v) <=> u = v
      BY <2>1, ItemKinds
    <2>4. open'[v] = open[v] - (IF u = v THEN 1 ELSE 0)
      BY <1>a, <1>b, <1>4 DEF ReadCounters
    <2> HIDE DEF x, n, m, u
    <2> QED
      BY <1>a, <2>2, <2>3, <2>4
  <1>5. ASSUME NEW w \in Workers, Dispatch(w) PROVE open'[v] = m(v)
    <2>1. m(v) = n(v) + (IF x(w) = x(v) THEN 1 ELSE 0)
      BY <1>5, AppendMove, ItemTypes DEF Dispatch
    <2>2. x(w) = x(v) <=> w = v
      BY ItemKinds
    <2>3. open'[v] = open[v] + (IF w = v THEN 1 ELSE 0)
      BY <1>a, <1>b, <1>5 DEF Dispatch
    <2> HIDE DEF x, n, m
    <2> QED
      BY <1>a, <2>1, <2>2, <2>3
  <1>6. ASSUME NEW w \in Workers, Freed(w) PROVE open'[v] = m(v)
    <2>1. doing[w] # x(v) /\ doing'[w] = Idle /\ OnlyAt(w, doing, doing') /\ open' = open /\ workQ' = workQ
      BY <1>a, <1>6 DEF Freed, OnlyAt, TypeOK
    <2>2. m(v) = n(v) - (IF doing[w] = x(v) THEN 1 ELSE 0)
      BY <1>a, <2>1, FreeMove
    <2> HIDE DEF x, n, m
    <2> QED
      BY <1>a, <2>1, <2>2
  <1>7. CASE AddNull
    <2>1. m(v) = n(v) + (IF Null = x(v) THEN 1 ELSE 0)
      BY <1>7, AppendMove, ItemTypes DEF AddNull, CountNull
    <2>2. open' = open /\ Null # x(v)
      BY <1>a, <1>7 DEF AddNull, CountNull
    <2> HIDE DEF x, n, m
    <2> QED
      BY <1>a, <2>1, <2>2
  <1> QED
    BY <1>1, <1>2, <1>3, <1>4, <1>5, <1>6, <1>7, Moves

LEMMA FetcherMove ==
    ASSUME TypeOK, FetcherInv, [Next]_vars
    PROVE  FetcherInv'
  <1> DEFINE n == Total(workQ, doing, Fetcher)
             m == Total(workQ', doing', Fetcher)
  <1>a. Fetcher \notin {Null, Ended, Idle}
    BY ItemKinds
  <1>b. n \in Nat
    <2>1. InQueue(workQ, Fetcher) \in Nat /\ With(doing, Fetcher) \in Nat
      BY QueuePlaces, WithPlaces DEF TypeOK
    <2> QED
      BY <2>1 DEF Total
  <1> SUFFICES m \in Int /\ m <= n
    <2>1. n <= 1 /\ (FetcherInv' <=> m <= 1)
      BY DEF FetcherInv, Total, With, InQueue
    <2> HIDE DEF n, m
    <2> QED
      BY <1>b, <2>1
  <1>1. CASE Stays
    BY <1>b, <1>1 DEF Stays
  <1>2. ASSUME NEW c \in Conns, AddWork(c) PROVE m \in Int /\ m <= n
    <2>1. m = n + (IF Item("connection", c) = Fetcher THEN 1 ELSE 0)
      BY <1>2, AppendMove, ItemTypes DEF AddWork
    <2> QED
      BY <1>b, <2>1, ItemKinds
  <1>3. ASSUME NEW w \in Workers, RetrieveWork(w) PROVE m \in Int /\ m <= n
    BY <1>a, <1>b, <1>3, TakeMove
  <1>4. ASSUME NEW w \in Workers, ReadCounters(w) PROVE m \in Int /\ m <= n
    <2>1. m = n - (IF doing[w] = Fetcher THEN 1 ELSE 0)
      BY <1>a, <1>4, ReadOf, FreeMove DEF ReadCounters
    <2> QED
      BY <1>b, <2>1
  <1>5. ASSUME NEW w \in Workers, Dispatch(w) PROVE m \in Int /\ m <= n
    <2>1. m = n + (IF Item("read", w) = Fetcher THEN 1 ELSE 0)
      BY <1>5, AppendMove, ItemTypes DEF Dispatch
    <2> QED
      BY <1>b, <2>1, ItemKinds
  <1>6. ASSUME NEW w \in Workers, Freed(w) PROVE m \in Int /\ m <= n
    <2>1. doing'[w] = Idle /\ OnlyAt(w, doing, doing') /\ workQ' = workQ
      BY <1>6 DEF Freed, OnlyAt, TypeOK
    <2>2. m = n - (IF doing[w] = Fetcher THEN 1 ELSE 0)
      BY <1>a, <2>1, FreeMove
    <2> QED
      BY <1>b, <2>2
  <1>7. CASE AddNull
    <2>1. m = n + (IF Null = Fetcher THEN 1 ELSE 0)
      BY <1>7, AppendMove, ItemTypes DEF AddNull, CountNull
    <2> QED
      BY <1>a, <1>b, <2>1
  <1> QED
    BY <1>1, <1>2, <1>3, <1>4, <1>5, <1>6, <1>7, Moves

LEMMA NullMove ==
    ASSUME TypeOK, NullInv, [Next]_vars
    PROVE  NullInv'
  <1> DEFINE n == Spent(workQ, doing)
             m == Spent(workQ', doing')
  <1>a. nulls = n /\ nulls \in Nat /\ Null # Ended
    <2>1. InQueue(workQ, Null) \in Nat /\ With(doing, Ended) \in Nat
      BY QueuePlaces, WithPlaces DEF TypeOK
    <2> QED
      BY <2>1, ItemKinds DEF NullInv, Spent
  <1> SUFFICES nulls' = m
    BY DEF NullInv, Spent, With, InQueue
  <1>1. CASE Stays
    BY <1>a, <1>1 DEF Stays
  <1>2. ASSUME NEW c \in Conns, AddWork(c) PROVE nulls' = m
    <2>1. m = n + (IF Item("connection", c) = Null THEN 1 ELSE 0) /\ nulls' = nulls
      BY <1>2, AppendMove, ItemTypes DEF AddWork, stop
    <2> QED
      BY <1>a, <2>1, ItemKinds
  <1>3. ASSUME NEW w \in Workers, RetrieveWork(w) PROVE nulls' = m
    BY <1>a, <1>3, TakeMove DEF RetrieveWork, stop
  <1>4. ASSUME NEW w \in Workers, ReadCounters(w) PROVE nulls' = m
    <2>1. doing[w] # Ended
      BY <1>4, ItemKinds DEF ReadCounters, Has
    <2>2. m = n /\ nulls' = nulls
      BY <1>4, <2>1, ReadOf, FreeMove DEF ReadCounters, stop
    <2> QED
      BY <1>a, <2>2
  <1>5. ASSUME NEW w \in Workers, Dispatch(w) PROVE nulls' = m
    <2>1. m = n + (IF Item("read", w) = Null THEN 1 ELSE 0) /\ nulls' = nulls
      BY <1>5, AppendMove, ItemTypes DEF Dispatch, stop
    <2> QED
      BY <1>a, <2>1, ItemKinds
  <1>6. ASSUME NEW w \in Workers, Freed(w) PROVE nulls' = m
    <2>1. doing'[w] = Idle /\ OnlyAt(w, doing, doing') /\ workQ' = workQ /\ doing[w] # Ended /\ nulls' = nulls
      BY <1>6, ItemKinds DEF Freed, OnlyAt, TypeOK
    <2>2. m = n
      BY <2>1, FreeMove
    <2> QED
      BY <1>a, <2>1, <2>2
  <1>7. CASE AddNull
    <2>1. m = n + 1 /\ nulls' = nulls + 1
      BY <1>7, AppendMove, ItemTypes DEF AddNull, CountNull
    <2> QED
      BY <1>a, <2>1
  <1> QED
    BY <1>1, <1>2, <1>3, <1>4, <1>5, <1>6, <1>7, Moves

\* One signal is handled, and its thread never leaves the handler.
LEMMA OneSignal == [Next]_vars => signalled' = signalled \/ signalled = "none"
  BY DEF Next, vars, stop, Accept, Refuse, AddWork, WorkerStep, RetrieveWork, ReadCounters, AwaitCounters,
         Dispatch, Tick, Leave, Insert, Trim, Close, GetPage, GetCurrent, GetPerSecond, Request, HaveCurrent,
         EnoughSamples, GetAggregators, Answer, HandleSignal, Stopping, AddNull, CountNull, Joined

LEMMA OrderMove ==
    ASSUME TypeOK, StopInv, NullInv, OrderInv, [Next]_vars
    PROVE  OrderInv'
  <1> DEFINE Apart(q) == \A i, j \in DOMAIN q : i < j /\ q[i] = Null => q[j].kind # "connection"
             Without(q) == \A j \in DOMAIN q : q[j].kind # "connection"
             Over(d) == \E w \in Workers : d[w] = Ended
  <1> SUFFICES ASSUME signalled' \in {Main, "none"}
               PROVE  Apart(workQ') /\ (Over(doing') => Without(workQ'))
    BY DEF OrderInv
  <1>0. signalled \in {Main, "none"}
    BY OneSignal
  <1>a. workQ \in Seq(Items) /\ Apart(workQ) /\ (Over(doing) => Without(workQ))
    BY <1>0 DEF TypeOK, OrderInv
  <1>b. ASSUME NEW e \in Items, e.kind # "connection", workQ' = Append(workQ, e), UNCHANGED doing
        PROVE  Apart(workQ') /\ (Over(doing') => Without(workQ'))
    <2>1. /\ DOMAIN workQ' = 1 .. Len(workQ) + 1 /\ DOMAIN workQ = 1 .. Len(workQ) /\ Len(workQ) \in Nat
          /\ workQ'[Len(workQ) + 1] = e /\ \A i \in 1 .. Len(workQ) : workQ'[i] = workQ[i]
      BY <1>a, <1>b
    <2> QED
      BY <1>a, <1>b, <2>1
  <1>c. ASSUME UNCHANGED workQ, Over(doing') => Over(doing)
        PROVE  Apart(workQ') /\ (Over(doing') => Without(workQ'))
    BY <1>a, <1>c
  <1>1. CASE Stays
    BY <1>1, <1>c DEF Stays
  <1>2. ASSUME NEW c \in Conns, AddWork(c)
        PROVE  Apart(workQ') /\ (Over(doing') => Without(workQ'))
    <2> DEFINE e == Item("connection", c)
    <2>1. nulls = 0 /\ workQ' = Append(workQ, e) /\ doing' = doing /\ e \in Items /\ e # Null
      BY <1>0, <1>2, ItemTypes, ItemKinds DEF AddWork, InHand, StopInv
    <2>2. InQueue(workQ, Null) = 0 /\ With(doing, Ended) = 0
      <3>1. InQueue(workQ, Null) \in Nat
        BY <1>a, QueuePlaces
      <3>2. With(doing, Ended) \in Nat
        BY WithPlaces
      <3>3. InQueue(workQ, Null) + With(doing, Ended) = 0
        BY <2>1 DEF NullInv, Spent
      <3> QED
        BY <3>1, <3>2, <3>3
    <2>3. (\A i \in DOMAIN workQ : workQ[i] # Null) /\ ~Over(doing)
      BY <2>2, <1>a, NotInQueue, WithPlaces
    <2>4. \A i \in DOMAIN workQ' : workQ'[i] # Null
      BY <2>1, <2>3, <1>a
    <2> QED
      BY <2>1, <2>3, <2>4
  <1>3. ASSUME NEW w \in Workers, RetrieveWork(w)
        PROVE  Apart(workQ') /\ (Over(doing') => Without(workQ'))
    <2>1. workQ # <<>> /\ workQ' = Tail(workQ)
      BY <1>3 DEF RetrieveWork
    <2>2. /\ Len(workQ) \in Nat \ {0} /\ DOMAIN workQ = 1 .. Len(workQ) /\ Head(workQ) = workQ[1]
          /\ DOMAIN workQ' = 1 .. Len(workQ) - 1 /\ \A i \in 1 .. Len(workQ) - 1 : workQ'[i] = workQ[i + 1]
      BY <1>a, <2>1
    <2>3. Apart(workQ')
      BY <1>a, <2>2
    <2>4. Over(doing') => Over(doing) \/ workQ[1] = Null
      <3>1. Head(workQ) # Ended
        BY <1>a, <2>1, ItemTypes
      <3>2. ASSUME NEW v \in Workers, doing'[v] = Ended, workQ[1] # Null PROVE doing[v] = Ended
        BY <1>3, <2>2, <3>1, <3>2 DEF RetrieveWork, TypeOK
      <3> QED
        BY <3>2
    <2>5. ASSUME workQ[1] = Null, NEW j \in DOMAIN workQ' PROVE workQ'[j].kind # "connection"
      <3>1. 1 \in DOMAIN workQ /\ j + 1 \in DOMAIN workQ /\ 1 < j + 1 /\ workQ'[j] = workQ[j + 1]
        BY <2>2
      <3> QED
        BY <1>a, <2>5, <3>1
    <2>6. Over(doing) => Without(workQ')
      BY <1>a, <2>2
    <2> QED
      BY <2>3, <2>4, <2>5, <2>6
  <1>4. ASSUME NEW w \in Workers, ReadCounters(w)
        PROVE  Apart(workQ') /\ (Over(doing') => Without(workQ'))
    <2>1. workQ' = workQ /\ (Over(doing') => Over(doing))
      BY <1>4, ReadOf, ItemKinds DEF ReadCounters, OnlyAt
    <2> QED
      BY <2>1, <1>c
  <1>5. ASSUME NEW w \in Workers, Dispatch(w)
        PROVE  Apart(workQ') /\ (Over(doing') => Without(workQ'))
    BY <1>5, <1>b, ItemTypes, ItemKinds DEF Dispatch
  <1>6. ASSUME NEW w \in Workers, Freed(w)
        PROVE  Apart(workQ') /\ (Over(doing') => Without(workQ'))
    <2>1. workQ' = workQ /\ (Over(doing') => Over(doing))
      BY <1>6, ItemKinds DEF Freed, TypeOK
    <2> QED
      BY <2>1, <1>c
  <1>7. CASE AddNull
    BY <1>7, <1>b, ItemTypes, ItemKinds DEF AddNull, CountNull
  <1> QED
    BY <1>1, <1>2, <1>3, <1>4, <1>5, <1>6, <1>7, Moves

LEMMA ConnMove ==
    ASSUME TypeOK, ConnInv, [Next]_vars
    PROVE  ConnInv'
  <1> DEFINE Found(q, d, x) == (\E i \in DOMAIN q : q[i] = x) \/ (\E w \in Workers : d[w] = x)
             x(c) == Item("connection", c)
  <1>a. workQ \in Seq(Items) /\ DOMAIN doing = Workers
    BY DEF TypeOK
  <1> SUFFICES ASSUME NEW c \in Conns, conns'[c] = "queued" PROVE Found(workQ', doing', x(c))
    BY DEF ConnInv, Queued
  <1>b. conns[c] = "queued" => Found(workQ, doing, x(c))
    BY DEF ConnInv, Queued
  <1>c. x(c).kind = "connection" /\ x(c) # Null /\ x(c) # Idle /\ x(c) # Ended
    BY ItemKinds
  <1>d. ASSUME NEW e \in Items, workQ' = Append(workQ, e), UNCHANGED doing, conns[c] = "queued" \/ e = x(c)
        PROVE  Found(workQ', doing', x(c))
    <2>1. /\ DOMAIN workQ' = 1 .. Len(workQ) + 1 /\ DOMAIN workQ = 1 .. Len(workQ) /\ Len(workQ) \in Nat
          /\ workQ'[Len(workQ) + 1] = e /\ \A i \in 1 .. Len(workQ) : workQ'[i] = workQ[i]
      BY <1>a, <1>d
    <2> HIDE DEF x
    <2> QED
      BY <1>b, <1>d, <2>1
  <1>e. ASSUME UNCHANGED workQ, conns[c] = "queued", \A w \in Workers : doing[w] = x(c) => doing'[w] = x(c)
        PROVE  Found(workQ', doing', x(c))
    BY <1>b, <1>e
  <1>1. CASE Stays
    BY <1>1, <1>e DEF Stays
  <1>2. ASSUME NEW b \in Conns, AddWork(b) PROVE Found(workQ', doing', x(c))
    <2>1. conns[c] = "queued" \/ x(b) = x(c)
      BY <1>2 DEF AddWork, TypeOK
    <2> QED
      BY <1>2, <2>1, <1>d, ItemTypes DEF AddWork
  <1>3. ASSUME NEW w \in Workers, RetrieveWork(w) PROVE Found(workQ', doing', x(c))
    <2>1. workQ # <<>> /\ workQ' = Tail(workQ) /\ doing[w] = Idle /\ conns' = conns
      BY <1>3 DEF RetrieveWork, clients
    <2>2. /\ Len(workQ) \in Nat \ {0} /\ DOMAIN workQ = 1 .. Len(workQ) /\ Head(workQ) = workQ[1]
          /\ DOMAIN workQ' = 1 .. Len(workQ) - 1 /\ \A i \in 1 .. Len(workQ) - 1 : workQ'[i] = workQ[i + 1]
      BY <1>a, <2>1
    <2>3. workQ[1] = x(c) => doing'[w] = x(c)
      BY <1>3, <1>a, <1>c, <2>2 DEF RetrieveWork
    <2>4. ASSUME NEW i \in DOMAIN workQ, i # 1, workQ[i] = x(c) PROVE Found(workQ', doing', x(c))
      <3>1. i - 1 \in DOMAIN workQ' /\ workQ'[i - 1] = x(c)
        BY <2>2, <2>4
      <3> QED
        BY <3>1
    <2>5. ASSUME NEW v \in Workers, doing[v] = x(c) PROVE doing'[v] = x(c)
      BY <1>3, <1>c, <2>1, <2>5 DEF RetrieveWork, TypeOK
    <2> HIDE DEF x
    <2> QED
      BY <1>b, <2>1, <2>3, <2>4, <2>5
  <1>4. ASSUME NEW w \in Workers, ReadCounters(w) PROVE Found(workQ', doing', x(c))
    <2>1. \A v \in Workers : doing[v] = x(c) => doing'[v] = x(c)
      BY <1>4, <1>c, ReadOf DEF ReadCounters, Has, OnlyAt
    <2> QED
      BY <1>4, <1>e, <2>1 DEF ReadCounters, clients
  <1>5. ASSUME NEW w \in Workers, Dispatch(w) PROVE Found(workQ', doing', x(c))
    BY <1>5, <1>d, ItemTypes DEF Dispatch, clients
  <1>6. ASSUME NEW w \in Workers, Freed(w) PROVE Found(workQ', doing', x(c))
    <2>1. conns[c] = "queued" /\ doing[w] # x(c) /\ workQ' = workQ
      BY <1>6 DEF Freed
    <2>2. \A v \in Workers : doing[v] = x(c) => doing'[v] = x(c)
      BY <1>6, <1>a, <2>1 DEF Freed
    <2> QED
      BY <1>e, <2>1, <2>2
  <1>7. CASE AddNull
    BY <1>7, <1>d, ItemTypes DEF AddNull, CountNull, clients
  <1> QED
    BY <1>1, <1>2, <1>3, <1>4, <1>5, <1>6, <1>7, Moves

-----------------------------------------------------------------------------
\* The other parts, action by action

\* Who has a read is waited for.
LEMMA ReadWaited ==
    ASSUME TypeOK, FuturesMatch, PlacesInv, NEW w \in Workers, ReadCounters(w)
    PROVE  open[doing[w].of] >= 1 /\ at[doing[w].of] = "dispatch"
  <1> DEFINE u == doing[w].of
             x == Item("read", u)
  <1>1. u \in Workers /\ doing[w] = x
    BY ReadOf
  <1>2. open[u] = InQueue(workQ, x) + With(doing, x) /\ open[u] \in Nat
    BY <1>1, CountIs DEF FuturesMatch, Total, TypeOK
  <1>3. InQueue(workQ, x) \in Nat
    BY QueuePlaces DEF TypeOK
  <1>4. With(doing, x) \in Nat /\ With(doing, x) # 0
    BY <1>1, WithPlaces
  <1>5. open[u] >= 1
    <2> HIDE DEF u, x
    <2> QED
      BY <1>2, <1>3, <1>4
  <1> QED
    BY <1>1, <1>5 DEF PlacesInv, Place

LEMMA OneFetcher ==
    ASSUME TypeOK, FetcherInv, NEW v \in Workers, NEW w \in Workers, doing[v] = Fetcher, doing[w] = Fetcher
    PROVE  v = w
  <1> DEFINE F == {u \in Workers : doing[u] = Fetcher}
  <1> SUFFICES ASSUME v # w PROVE FALSE
    OBVIOUS
  <1>1. IsFiniteSet(F) /\ Cardinality(F) \in Nat
    BY ThreadsAssumption, FS_Subset, FS_CardinalityType
  <1>2. IsFiniteSet({v}) /\ Cardinality({v}) = 1
    BY FS_Singleton
  <1>3. Cardinality({v} \cup {w}) = 2
    BY <1>2, FS_AddElement
  <1>4. Cardinality({v} \cup {w}) <= Cardinality(F)
    BY <1>1, FS_Subset
  <1>5. Cardinality(F) <= 1
    <2>1. InQueue(workQ, Fetcher) \in Nat /\ With(doing, Fetcher) = Cardinality(F)
      BY QueuePlaces DEF TypeOK, With
    <2> HIDE DEF F
    <2> QED
      BY <1>1, <2>1 DEF FetcherInv, Total
  <1> HIDE DEF F
  <1> QED
    BY <1>1, <1>3, <1>4, <1>5

\* The drop leaves the first samples, as many as are kept.
LEMMA Trimmed ==
    ASSUME TypeOK, NEW w \in Workers, Trim(w)
    PROVE  /\ agVector' \in Seq(1 .. MaxSamples) /\ Len(agVector') <= Len(agVector)
           /\ Len(agVector') <= Kept
           /\ (Len(agVector') >= Kept \/ agVector' = agVector)
           /\ \A i \in 1 .. Len(agVector') : agVector'[i] = agVector[i]
  <1> DEFINE n == Len(agVector)
             t == SubSeq(agVector, 1, n - 1)
  <1>1. agVector \in Seq(1 .. MaxSamples) /\ n \in Nat /\ n <= Kept + 1 /\ Kept \in Nat \ {0}
    BY SizesAssumption DEF TypeOK
  <1>2. CASE n > Kept
    <2>1. n = Kept + 1 /\ n - 1 \in Int /\ \A i \in 1 .. n - 1 : agVector[i] \in 1 .. MaxSamples
      <3>1. n = Kept + 1 /\ n - 1 \in Int /\ \A i \in 1 .. n - 1 : i \in 1 .. n
        BY <1>1, <1>2
      <3>2. \A i \in 1 .. n : agVector[i] \in 1 .. MaxSamples
        BY <1>1, ElementOfSeq
      <3> QED
        BY <3>1, <3>2
    <2>2. /\ t \in Seq(1 .. MaxSamples)
          /\ Len(t) = IF 1 <= n - 1 THEN n - 1 - 1 + 1 ELSE 0
          /\ \A i \in 1 .. n - 1 - 1 + 1 : t[i] = agVector[1 + i - 1]
      <3> HIDE DEF n
      <3> QED
        BY <2>1, SubSeqProperties
    <2>3. Len(t) = n - 1 /\ \A i \in 1 .. n - 1 : t[i] = agVector[i]
      BY <1>1, <2>1, <2>2
    <2>4. agVector' = t
      BY <1>2 DEF Trim
    <2>5. Len(agVector') = Kept
      BY <1>1, <2>1, <2>3, <2>4
    <2> QED
      BY <1>1, <2>1, <2>2, <2>3, <2>4, <2>5
  <1>3. CASE ~(n > Kept)
    <2>1. agVector' = agVector
      BY <1>3 DEF Trim
    <2> QED
      BY <1>1, <1>3, <2>1
  <1> QED
    BY <1>2, <1>3

LEMMA TypeStep ==
    ASSUME IInv, [Next]_vars
    PROVE  TypeOK'
  <1> USE DEF IInv, Runs, Goto, Has, Finish, pool, clients, data, stop
  <1>a. Cardinality(Workers) \in Nat
    BY ThreadsAssumption, FS_CardinalityType
  <1>1. ASSUME NEW c \in Conns, AddWork(c) PROVE TypeOK'
    BY <1>1, ItemTypes DEF AddWork, TypeOK
  <1>16. ASSUME NEW c \in Conns, Accept(c) \/ Refuse(c) PROVE TypeOK'
    BY <1>16 DEF Accept, Refuse, TypeOK
  <1>17. ASSUME NEW w \in Workers, AwaitCounters(w) PROVE TypeOK'
    BY <1>17 DEF AwaitCounters, TypeOK
  <1>2. ASSUME NEW w \in Workers, RetrieveWork(w) PROVE TypeOK'
    <2>1. Head(workQ) \in Items /\ Tail(workQ) \in Seq(Items)
      BY <1>2 DEF RetrieveWork, TypeOK
    <2> QED
      BY <1>2, <2>1 DEF RetrieveWork, TypeOK
  <1>3. ASSUME NEW w \in Workers, ReadCounters(w) PROVE TypeOK'
    <2>1. doing[w].of \in Workers /\ open[doing[w].of] >= 1
      <3>1. doing[w].of \in Workers
        BY <1>3, ReadOf
      <3>2. open[doing[w].of] >= 1
        BY <1>3, ReadWaited
      <3> QED
        BY <3>1, <3>2
    <2>2. open[doing[w].of] - 1 \in 0 .. Reads
      <3>1. open[doing[w].of] \in 0 .. Reads
        BY <2>1 DEF TypeOK
      <3> QED
        BY <2>1, <3>1, SizesAssumption
    <2>3. open' \in [Workers -> 0 .. Reads]
      BY <1>3, <2>1, <2>2 DEF ReadCounters, TypeOK
    <2> QED
      BY <1>3, <2>3 DEF ReadCounters, TypeOK
  <1>4. ASSUME NEW w \in Workers, Dispatch(w) PROVE TypeOK'
    <2>1. toAdd[w] \in 0 .. Reads /\ open[w] \in 0 .. Reads /\ toAdd[w] > 0 /\ toAdd[w] + open[w] <= Reads
      BY <1>4 DEF Dispatch, TypeOK, PlacesInv, Place
    <2>2. toAdd[w] - 1 \in 0 .. Reads /\ open[w] + 1 \in 0 .. Reads
      BY <2>1, SizesAssumption
    <2>3. open' \in [Workers -> 0 .. Reads] /\ toAdd' \in [Workers -> 0 .. Reads]
      BY <1>4, <2>2 DEF Dispatch, TypeOK
    <2>4. workQ' \in Seq(Items)
      BY <1>4, ItemTypes DEF Dispatch, TypeOK
    <2> QED
      BY <1>4, <2>3, <2>4 DEF Dispatch, TypeOK
  <1>5. ASSUME NEW w \in Workers, Tick(w) \/ Leave(w) \/ HaveCurrent(w) \/ EnoughSamples(w) PROVE TypeOK'
    <2>1. Reads \in 0 .. Reads
      BY SizesAssumption
    <2>2. CASE Tick(w)
      BY <2>1, <2>2 DEF Tick, BeginDispatch, TypeOK
    <2>3. CASE Leave(w)
      BY <2>3 DEF Leave, TypeOK
    <2>4. CASE HaveCurrent(w)
      BY <2>4 DEF HaveCurrent, TypeOK
    <2>5. CASE EnoughSamples(w)
      BY <2>5 DEF EnoughSamples, TypeOK
    <2> QED
      BY <1>5, <2>2, <2>3, <2>4, <2>5
  <1>6. ASSUME NEW w \in Workers, Insert(w) PROVE TypeOK'
    <2>1. samples < MaxSamples
      <3>1. doing[w] = Fetcher
        BY <1>6, ItemCases DEF Insert, TypeOK, AllItems
      <3> QED
        BY <1>6, <3>1 DEF Insert, Dispatched, SampleInv
    <2>2. samples' \in 0 .. MaxSamples /\ samples + 1 \in 1 .. MaxSamples
      BY <1>6, <2>1, SizesAssumption DEF Insert, TypeOK
    <2>3. agVector' \in Seq(1 .. MaxSamples) /\ Len(agVector') <= Kept + 1
      BY <1>6, <2>2, SizesAssumption DEF Insert, TypeOK, LockInv
    <2> QED
      BY <1>6, <2>2, <2>3 DEF Insert, TypeOK
  <1>7. ASSUME NEW w \in Workers, Trim(w) PROVE TypeOK'
    <2>1. agVector \in Seq(1 .. MaxSamples) /\ Len(agVector) \in Nat /\ Len(agVector) <= Kept + 1
      BY DEF TypeOK
    <2>2. agVector' \in Seq(1 .. MaxSamples) /\ Len(agVector') <= Kept
      BY <1>7, Trimmed
    <2>3. Len(agVector') <= Kept + 1
      BY <2>2, SizesAssumption
    <2> QED
      BY <1>7, <2>2, <2>3 DEF Trim, TypeOK
  <1>8. ASSUME NEW w \in Workers, Close(w) PROVE TypeOK'
    BY <1>8 DEF Close, TypeOK
  <1>9. ASSUME NEW w \in Workers, GetPage(w) \/ GetCurrent(w) \/ GetPerSecond(w) PROVE TypeOK'
    <2>1. Reads \in 0 .. Reads /\ 0 \in 0 .. Kept /\ 1 .. Kept \subseteq 0 .. Kept
      BY SizesAssumption
    <2>2. ASSUME NEW what, NEW where \in {"answer", "dispatch", "wait"}, NEW n \in 0 .. Kept,
                 Request(w, what, where, n), toAdd' \in [Workers -> 0 .. Reads]
          PROVE  TypeOK'
      BY <2>2 DEF Request, TypeOK
    <2>3. CASE GetPage(w)
      BY <2>1, <2>2, <2>3 DEF GetPage, TypeOK
    <2>4. CASE GetCurrent(w)
      <3>1. toAdd' \in [Workers -> 0 .. Reads]
        BY <2>1, <2>4 DEF GetCurrent, TypeOK
      <3> QED
        BY <2>1, <2>2, <2>4, <3>1 DEF GetCurrent
    <2>5. CASE GetPerSecond(w)
      BY <2>1, <2>2, <2>5 DEF GetPerSecond, TypeOK
    <2> QED
      BY <1>9, <2>3, <2>4, <2>5
  <1>10. ASSUME NEW w \in Workers, GetAggregators(w) PROVE TypeOK'
    BY <1>10, SizesAssumption DEF GetAggregators, TypeOK
  <1>11. ASSUME NEW w \in Workers, Answer(w) PROVE TypeOK'
    BY <1>11 DEF Answer, TypeOK
  <1>12. ASSUME NEW t \in Workers \cup {Main}, HandleSignal(t) PROVE TypeOK'
    BY <1>12 DEF HandleSignal, Locks, TypeOK
  <1>13. CASE AddNull
    BY <1>a, <1>13, ItemTypes DEF AddNull, CountNull, TypeOK
  <1>14. CASE Joined
    BY <1>14 DEF Joined, TypeOK
  <1>15. CASE UNCHANGED vars
    BY <1>15 DEF vars, TypeOK
  <1> QED
    BY <1>1, <1>2, <1>3, <1>4, <1>5, <1>6, <1>7, <1>8, <1>9, <1>10, <1>11, <1>12, <1>13, <1>14, <1>15,
       <1>16, <1>17
    DEF Next, WorkerStep, Stopping

LEMMA PlacesStep ==
    ASSUME IInv, [Next]_vars
    PROVE  PlacesInv'
  <1> USE DEF Runs, Goto, Has, Finish, pool, clients, data, stop
  <1> DEFINE P(w) == Place(doing'[w], at'[w], toAdd'[w], open'[w])
             Keeps(w) == doing'[w] = doing[w] /\ at'[w] = at[w] /\ toAdd'[w] = toAdd[w] /\ open'[w] = open[w]
  <1>a. /\ TypeOK /\ FuturesMatch /\ PlacesInv
        /\ DOMAIN doing = Workers /\ DOMAIN at = Workers /\ DOMAIN toAdd = Workers /\ DOMAIN open = Workers
        /\ \A w \in Workers : /\ Place(doing[w], at[w], toAdd[w], open[w])
                              /\ doing[w] \in AllItems /\ toAdd[w] \in Nat /\ open[w] \in Nat
    BY DEF IInv, TypeOK, PlacesInv, AllItems
  <1> SUFFICES \A v \in Workers : P(v)
    BY DEF PlacesInv
  <1>b. ASSUME NEW w \in Workers, P(w), \A v \in Workers \ {w} : Keeps(v) PROVE \A v \in Workers : P(v)
    <2> HIDE DEF Keeps
    <2>1. ASSUME NEW v \in Workers, Keeps(v) PROVE P(v)
      BY <1>a, <2>1 DEF Keeps
    <2> QED
      BY <1>b, <2>1
  <1>c. ASSUME \A v \in Workers : Keeps(v) PROVE \A v \in Workers : P(v)
    BY <1>a, <1>c
  <1>1. ASSUME NEW c \in Conns, Accept(c) \/ Refuse(c) \/ AddWork(c) PROVE \A v \in Workers : P(v)
    BY <1>1, <1>c DEF Accept, Refuse, AddWork
  <1>12. ASSUME NEW w \in Workers, AwaitCounters(w) PROVE \A v \in Workers : P(v)
    <2>1. P(w)
      BY <1>a, <1>12 DEF AwaitCounters, Place
    <2> QED
      BY <1>a, <1>b, <1>12, <2>1 DEF AwaitCounters
  <1>2. ASSUME NEW w \in Workers, RetrieveWork(w) PROVE \A v \in Workers : P(v)
    <2>1. Head(workQ) \in Items
      BY <1>2 DEF IInv, TypeOK, RetrieveWork
    <2>2. P(w)
      BY <1>a, <1>2, <2>1, ItemKinds DEF RetrieveWork, Place
    <2>3. \A v \in Workers \ {w} : Keeps(v)
      BY <1>a, <1>2 DEF RetrieveWork
    <2> QED
      BY <1>b, <2>2, <2>3
  <1>3. ASSUME NEW w \in Workers, ReadCounters(w) PROVE \A v \in Workers : P(v)
    <2> DEFINE u == doing[w].of
    <2>1. u \in Workers /\ doing'[w] = Idle /\ OnlyAt(w, doing, doing')
      BY <1>a, <1>3, ReadOf
    <2>2. at[u] = "dispatch" /\ open[u] >= 1 /\ at[w] = "start" /\ u # w
      <3>1. at[u] = "dispatch" /\ open[u] >= 1
        BY <1>a, <1>3, ReadWaited
      <3> QED
        BY <1>3, <3>1 DEF ReadCounters
    <2>3. P(w)
      BY <1>a, <1>3, <2>1, <2>2, ItemKinds DEF ReadCounters, Place
    <2>4. P(u)
      <3>1. /\ doing'[u] = doing[u] /\ at'[u] = "dispatch" /\ toAdd'[u] = toAdd[u]
            /\ open'[u] = open[u] - 1 /\ open[u] - 1 <= open[u] /\ open[u] - 1 \in Nat
        BY <1>a, <1>3, <2>1, <2>2 DEF ReadCounters, OnlyAt
      <3>2. Place(doing[u], "dispatch", toAdd[u], open[u]) /\ toAdd[u] \in Nat /\ open[u] \in Nat
        BY <1>a, <2>1, <2>2
      <3>3. toAdd[u] + open[u] <= Reads => toAdd[u] + (open[u] - 1) <= Reads
        BY <3>2, SizesAssumption
      <3>4. Place(doing[u], "dispatch", toAdd[u], open[u] - 1)
        <4> HIDE DEF u
        <4> QED
          BY <3>2, <3>3 DEF Place
      <3> QED
        BY <3>1, <3>4
    <2>5. ASSUME NEW v \in Workers, v # w, v # u PROVE P(v)
      BY <1>a, <1>3, <2>1, <2>5 DEF ReadCounters, OnlyAt
    <2> QED
      BY <2>3, <2>4, <2>5
  <1>4. ASSUME NEW w \in Workers, Dispatch(w) PROVE \A v \in Workers : P(v)
    <2>1. /\ doing'[w] = doing[w] /\ at'[w] = "dispatch" /\ at[w] = "dispatch"
          /\ toAdd'[w] = toAdd[w] - 1 /\ open'[w] = open[w] + 1
      BY <1>a, <1>4 DEF Dispatch
    <2>2. Place(doing[w], "dispatch", toAdd[w], open[w]) /\ toAdd[w] \in Nat /\ open[w] \in Nat
      BY <1>a, <2>1
    <2>3. (toAdd[w] - 1) + (open[w] + 1) = toAdd[w] + open[w]
      BY <2>2
    <2>4. P(w)
      BY <2>1, <2>2, <2>3 DEF Place
    <2> QED
      BY <1>a, <1>b, <1>4, <2>4 DEF Dispatch
  <1>5. ASSUME NEW w \in Workers, Tick(w) \/ Leave(w) PROVE \A v \in Workers : P(v)
    <2>1. P(w)
      BY <1>a, <1>5, ItemKinds, SizesAssumption DEF Tick, BeginDispatch, Leave, Place
    <2> QED
      BY <1>a, <1>b, <1>5, <2>1 DEF Tick, BeginDispatch, Leave
  <1>6. ASSUME NEW w \in Workers, Insert(w) \/ Trim(w) PROVE \A v \in Workers : P(v)
    <2>1. P(w)
      BY <1>a, <1>6, ItemCases, ItemKinds DEF Insert, Dispatched, Trim, Place
    <2> QED
      BY <1>a, <1>b, <1>6, <2>1 DEF Insert, Trim
  <1>7. ASSUME NEW w \in Workers, Close(w) PROVE \A v \in Workers : P(v)
    <2>1. P(w)
      BY <1>a, <1>7, ItemKinds DEF Close, Place
    <2> QED
      BY <1>a, <1>b, <1>7, <2>1 DEF Close
  <1>8. ASSUME NEW w \in Workers, GetPage(w) \/ GetCurrent(w) \/ GetPerSecond(w)
        PROVE  \A v \in Workers : P(v)
    <2>1. P(w)
      BY <1>a, <1>8, ItemCases, ItemKinds, SizesAssumption DEF GetPage, GetCurrent, GetPerSecond, Request, Place
    <2> QED
      BY <1>a, <1>b, <1>8, <2>1 DEF GetPage, GetCurrent, GetPerSecond, Request
  <1>9. ASSUME NEW w \in Workers, HaveCurrent(w) \/ EnoughSamples(w) \/ GetAggregators(w)
        PROVE  \A v \in Workers : P(v)
    <2>1. P(w)
      BY <1>a, <1>9, ItemCases, ItemKinds DEF HaveCurrent, EnoughSamples, GetAggregators, Dispatched, Place
    <2> QED
      BY <1>a, <1>b, <1>9, <2>1 DEF HaveCurrent, EnoughSamples, GetAggregators
  <1>10. ASSUME NEW w \in Workers, Answer(w) PROVE \A v \in Workers : P(v)
    <2>1. P(w)
      BY <1>a, <1>10, ItemCases, ItemKinds DEF Answer, Place
    <2> QED
      BY <1>a, <1>b, <1>10, <2>1 DEF Answer
  <1>11. CASE (\E t \in Workers \cup {Main} : HandleSignal(t)) \/ AddNull \/ Joined \/ UNCHANGED vars
    BY <1>c, <1>11 DEF HandleSignal, AddNull, CountNull, Joined, vars
  <1> QED
    BY <1>1, <1>2, <1>3, <1>4, <1>5, <1>6, <1>7, <1>8, <1>9, <1>10, <1>11, <1>12
    DEF Next, WorkerStep, Stopping

LEMMA LockStep ==
    ASSUME IInv, [Next]_vars
    PROVE  LockInv'
  <1> USE DEF Runs, Goto, Has, Finish, pool, clients, data, stop
  <1>a. /\ DOMAIN at = Workers /\ \A v \in Workers : at[v] = "trim" <=> agLock = v
        /\ Len(agVector) <= Kept + (IF agLock = Main THEN 0 ELSE 1)
        /\ \A v \in Workers : doing[v] = Idle => at[v] = "start"
        /\ agVector \in Seq(1 .. MaxSamples) /\ Len(agVector) \in Nat /\ Kept \in Nat
    BY ItemKinds, SizesAssumption DEF IInv, TypeOK, LockInv, PlacesInv, Place
  <1>b. ASSUME UNCHANGED <<agLock, agVector>>, \A v \in Workers : at'[v] = "trim" <=> at[v] = "trim"
        PROVE  LockInv'
    BY <1>a, <1>b DEF LockInv
  <1>1. ASSUME NEW c \in Conns, Accept(c) \/ Refuse(c) \/ AddWork(c) PROVE LockInv'
    BY <1>1, <1>b DEF Accept, Refuse, AddWork
  <1>2. ASSUME NEW w \in Workers, RetrieveWork(w) PROVE LockInv'
    BY <1>a, <1>2, <1>b DEF RetrieveWork
  <1>3. ASSUME NEW w \in Workers, ReadCounters(w) \/ AwaitCounters(w) \/ Dispatch(w) PROVE LockInv'
    BY <1>a, <1>3, <1>b DEF ReadCounters, AwaitCounters, Dispatch
  <1>4. ASSUME NEW w \in Workers, Tick(w) \/ Leave(w) PROVE LockInv'
    BY <1>a, <1>4, <1>b DEF Tick, BeginDispatch, Leave
  <1>5. ASSUME NEW w \in Workers, Insert(w) PROVE LockInv'
    <2>1. agLock = Main /\ agLock' = w /\ at' = [at EXCEPT ![w] = "trim"] /\ w # Main
      BY <1>5, ThreadsAssumption DEF Insert
    <2>2. \A v \in Workers : at'[v] = "trim" <=> agLock' = v
      BY <1>a, <2>1, ThreadsAssumption
    <2>3. Len(agVector') = Len(agVector) + 1
      BY <1>a, <1>5 DEF Insert, IInv, TypeOK
    <2> QED
      BY <1>a, <2>1, <2>2, <2>3 DEF LockInv
  <1>6. ASSUME NEW w \in Workers, Trim(w) PROVE LockInv'
    <2>1. agLock = w /\ agLock' = Main /\ at' = [at EXCEPT ![w] = "start"]
      BY <1>a, <1>6 DEF Trim
    <2>2. \A v \in Workers : at'[v] = "trim" <=> agLock' = v
      BY <1>a, <2>1, ThreadsAssumption
    <2>3. Len(agVector') <= Kept
      BY <1>6, Trimmed DEF IInv
    <2> QED
      BY <1>a, <2>1, <2>2, <2>3 DEF LockInv
  <1>7. ASSUME NEW w \in Workers, Close(w) \/ Answer(w) PROVE LockInv'
    BY <1>a, <1>7, <1>b DEF Close, Answer
  <1>8. ASSUME NEW w \in Workers, GetPage(w) \/ GetCurrent(w) \/ GetPerSecond(w) PROVE LockInv'
    BY <1>a, <1>8, <1>b DEF GetPage, GetCurrent, GetPerSecond, Request
  <1>9. ASSUME NEW w \in Workers, HaveCurrent(w) \/ EnoughSamples(w) \/ GetAggregators(w) PROVE LockInv'
    BY <1>a, <1>9, <1>b DEF HaveCurrent, Dispatched, EnoughSamples, GetAggregators
  <1>10. CASE (\E t \in Workers \cup {Main} : HandleSignal(t)) \/ AddNull \/ Joined \/ UNCHANGED vars
    BY <1>b, <1>10 DEF HandleSignal, AddNull, CountNull, Joined, vars
  <1> QED
    BY <1>1, <1>2, <1>3, <1>4, <1>5, <1>6, <1>7, <1>8, <1>9, <1>10
    DEF Next, WorkerStep, Stopping

LEMMA SampleStep ==
    ASSUME IInv, [Next]_vars
    PROVE  SampleInv'
  <1> USE DEF Runs, Goto, Has, Finish, pool, clients, data, stop
  <1> DEFINE Due(w) == doing[w] = Fetcher /\ at[w] = "dispatch"
             Enough(n, w) == asked[w] < Kept => asked[w] + 1 <= n
  <1>a. /\ DOMAIN at = Workers /\ DOMAIN doing = Workers /\ DOMAIN asked = Workers
        /\ agVector \in Seq(1 .. MaxSamples) /\ Len(agVector) \in Nat /\ samples \in Nat
        /\ Kept \in Nat /\ \A v \in Workers : asked[v] \in Nat
    BY SizesAssumption DEF IInv, TypeOK
  <1>b. /\ \A i \in DOMAIN agVector : agVector[i] = samples + 1 - i
        /\ Len(agVector) <= samples
        /\ \A v \in Workers : Due(v) => samples < MaxSamples
        /\ \A v \in Workers : at[v] = "pair" => Enough(Len(agVector), v)
    BY DEF IInv, SampleInv
  <1>c. \A v \in Workers : doing[v] = Idle => at[v] = "start"
    BY ItemKinds DEF IInv, PlacesInv, Place
  <1>d. Fetcher # Idle /\ Fetcher.kind = "fetcher"
    BY ItemKinds
  <1>e. ASSUME UNCHANGED <<agVector, samples>>,
               \A v \in Workers : Due(v)' => Due(v) \/ samples < MaxSamples,
               \A v \in Workers : at'[v] = "pair" => /\ asked'[v] = asked[v]
                                                    /\ (at[v] = "pair" \/ Enough(Len(agVector), v))
        PROVE  SampleInv'
    <2>1. ASSUME NEW v \in Workers, at'[v] = "pair", asked'[v] < Kept PROVE asked'[v] + 1 <= Len(agVector')
      <3>1. asked'[v] = asked[v] /\ Enough(Len(agVector), v)
        BY <1>b, <1>e, <2>1
      <3> QED
        BY <1>e, <2>1, <3>1
    <2>2. \A v \in Workers : doing'[v] = Fetcher /\ at'[v] = "dispatch" => samples' < MaxSamples
      BY <1>b, <1>e
    <2>3. (\A i \in DOMAIN agVector' : agVector'[i] = samples' + 1 - i) /\ Len(agVector') <= samples'
      BY <1>b, <1>e
    <2> QED
      BY <2>1, <2>2, <2>3 DEF SampleInv
  <1>1. ASSUME NEW c \in Conns, Accept(c) \/ Refuse(c) \/ AddWork(c) PROVE SampleInv'
    BY <1>1, <1>e DEF Accept, Refuse, AddWork
  <1>2. ASSUME NEW w \in Workers, RetrieveWork(w) PROVE SampleInv'
    BY <1>a, <1>2, <1>e DEF RetrieveWork
  <1>3. ASSUME NEW w \in Workers, ReadCounters(w) \/ Leave(w) \/ Close(w) \/ Answer(w) PROVE SampleInv'
    BY <1>a, <1>3, <1>d, <1>e DEF ReadCounters, Leave, Close, Answer
  <1>4. ASSUME NEW w \in Workers, Dispatch(w) \/ Tick(w) \/ AwaitCounters(w) PROVE SampleInv'
    BY <1>a, <1>4, <1>e DEF Dispatch, Tick, AwaitCounters, BeginDispatch
  <1>5. ASSUME NEW w \in Workers, Insert(w) PROVE SampleInv'
    <2>1. /\ doing[w] = Fetcher /\ doing' = doing /\ asked' = asked /\ samples' = samples + 1
          /\ at' = [at EXCEPT ![w] = "trim"]
          /\ agVector' = <<samples + 1>> \o agVector
      BY <1>5, ItemCases DEF Insert, IInv, TypeOK, AllItems
    <2>2. /\ Len(agVector') = Len(agVector) + 1 /\ DOMAIN agVector' = 1 .. Len(agVector) + 1
          /\ agVector'[1] = samples + 1 /\ \A i \in 1 .. Len(agVector) : agVector'[i + 1] = agVector[i]
      BY <1>a, <2>1
    <2>3. \A i \in DOMAIN agVector' : agVector'[i] = samples' + 1 - i
      <3> TAKE i \in DOMAIN agVector'
      <3>1. CASE i = 1
        BY <1>a, <2>1, <2>2, <3>1
      <3>2. CASE i # 1
        <4>1. i - 1 \in 1 .. Len(agVector) /\ (i - 1) + 1 = i
          BY <1>a, <2>2, <3>2
        <4>2. agVector'[i] = agVector[i - 1] /\ agVector[i - 1] = samples + 1 - (i - 1)
          BY <1>a, <1>b, <2>2, <4>1
        <4> QED
          BY <1>a, <2>1, <2>2, <4>2
      <3> QED
        BY <3>1, <3>2
    <2>4. \A v \in Workers : ~Due(v)'
      BY <1>a, <2>1, OneFetcher DEF IInv
    <2>5. ASSUME NEW v \in Workers, at'[v] = "pair", asked'[v] < Kept PROVE asked'[v] + 1 <= Len(agVector')
      <3>1. at[v] = "pair" /\ asked'[v] = asked[v]
        BY <1>a, <2>1, <2>5
      <3> QED
        BY <1>a, <1>b, <2>2, <2>5, <3>1
    <2>6. Len(agVector') <= samples'
      BY <1>a, <1>b, <2>1, <2>2
    <2> QED
      BY <2>3, <2>4, <2>5, <2>6 DEF SampleInv
  <1>6. ASSUME NEW w \in Workers, Trim(w) PROVE SampleInv'
    <2>1. doing' = doing /\ asked' = asked /\ samples' = samples /\ at' = [at EXCEPT ![w] = "start"]
      BY <1>6 DEF Trim
    <2>2. /\ Len(agVector') <= Len(agVector) /\ Len(agVector') \in Nat /\ DOMAIN agVector' = 1 .. Len(agVector')
          /\ (Len(agVector') >= Kept \/ agVector' = agVector)
          /\ \A i \in 1 .. Len(agVector') : agVector'[i] = agVector[i]
      <3>1. agVector' \in Seq(1 .. MaxSamples)
        BY <1>6, Trimmed DEF IInv
      <3>2. Len(agVector') \in Nat /\ DOMAIN agVector' = 1 .. Len(agVector')
        BY <3>1
      <3> QED
        BY <1>6, <3>2, Trimmed DEF IInv
    <2>3. \A i \in DOMAIN agVector' : agVector'[i] = samples' + 1 - i
      <3> TAKE i \in DOMAIN agVector'
      <3>1. i \in 1 .. Len(agVector') /\ i \in DOMAIN agVector
        BY <1>a, <2>2
      <3> QED
        BY <1>b, <2>1, <2>2, <3>1
    <2>4. ASSUME NEW v \in Workers, at'[v] = "pair", asked'[v] < Kept PROVE asked'[v] + 1 <= Len(agVector')
      <3>1. at[v] = "pair" /\ asked'[v] = asked[v]
        BY <1>a, <2>1, <2>4
      <3> QED
        BY <1>a, <1>b, <2>2, <2>4, <3>1
    <2>5. \A v \in Workers : Due(v)' => Due(v)
      BY <1>a, <2>1
    <2>6. Len(agVector') <= samples'
      BY <1>a, <1>b, <2>1, <2>2
    <2> QED
      BY <1>b, <2>1, <2>3, <2>4, <2>5, <2>6 DEF SampleInv
  <1>7. ASSUME NEW w \in Workers, GetPage(w) \/ GetCurrent(w) \/ GetPerSecond(w) PROVE SampleInv'
    BY <1>a, <1>7, <1>d, <1>e DEF GetPage, GetCurrent, GetPerSecond, Request
  <1>8. ASSUME NEW w \in Workers, HaveCurrent(w) \/ EnoughSamples(w) \/ GetAggregators(w) PROVE SampleInv'
    BY <1>a, <1>8, <1>e DEF HaveCurrent, EnoughSamples, GetAggregators
  <1>9. CASE (\E t \in Workers \cup {Main} : HandleSignal(t)) \/ AddNull \/ Joined \/ UNCHANGED vars
    BY <1>e, <1>9 DEF HandleSignal, AddNull, CountNull, Joined, vars
  <1> QED
    BY <1>1, <1>2, <1>3, <1>4, <1>5, <1>6, <1>7, <1>8, <1>9
    DEF Next, WorkerStep, Stopping

LEMMA PoolSize == Cardinality(Workers) \in Nat \ {0}
  BY ThreadsAssumption, FS_CardinalityType, FS_EmptySet

LEMMA StopStep ==
    ASSUME IInv, [Next]_vars
    PROVE  StopInv'
  <1> USE DEF Runs, pool, clients, data, stop
  <1>a. /\ StopInv /\ signalled \in Workers \cup {Main, "none"} /\ joins \subseteq Workers
        /\ nulls \in 0 .. Cardinality(Workers)
    BY DEF IInv, TypeOK
  <1>1. CASE UNCHANGED <<exit, signalled, holds, nulls, joins, gone>> /\ (gone => UNCHANGED doing)
    BY <1>a, <1>1 DEF StopInv
  <1>2. CASE \E t \in Workers \cup {Main} : HandleSignal(t)
    <2>1. ~exit /\ ~gone /\ nulls = 0 /\ joins = {}
      BY <1>a, <1>2 DEF HandleSignal, StopInv
    <2>2. exit' /\ signalled' # "none" /\ UNCHANGED <<nulls, joins, gone>>
      BY <1>2, ThreadsAssumption DEF HandleSignal
    <2> QED
      BY <2>1, <2>2, PoolSize DEF StopInv
  <1>3. CASE AddNull
    <2>1. /\ nulls < Cardinality(Workers) /\ ~gone /\ exit /\ joins = {} /\ holds # "queue"
          /\ signalled # "none" /\ nulls' = nulls + 1 /\ UNCHANGED <<exit, signalled, holds, gone>>
      BY <1>a, <1>3 DEF AddNull, CountNull, StopInv
    <2>2. joins' \in IF nulls + 1 < Cardinality(Workers) THEN {{}}
                     ELSE IF signalled = Main THEN {Workers} ELSE SUBSET (Workers \ {signalled})
      BY <1>3, <2>1 DEF AddNull, CountNull
    <2>3. nulls' < Cardinality(Workers) => joins' = {}
      BY <2>1, <2>2
    <2>4. signalled = Main /\ nulls' = Cardinality(Workers) => joins' = Workers
      BY <1>a, <2>1, <2>2, PoolSize
    <2>5. signalled \notin joins'
      BY <2>2, ThreadsAssumption
    <2> QED
      BY <2>1, <2>3, <2>4, <2>5 DEF StopInv
  <1>4. CASE Joined
    BY <1>a, <1>4, PoolSize DEF Joined, StopInv
  <1>5. ASSUME (\E c \in Conns : Accept(c) \/ Refuse(c) \/ AddWork(c)) \/ (\E w \in Workers : WorkerStep(w)) \/ UNCHANGED vars
        PROVE  UNCHANGED <<exit, signalled, holds, nulls, joins, gone>> /\ (gone => UNCHANGED doing)
    BY <1>5 DEF Accept, Refuse, AddWork, WorkerStep, RetrieveWork, ReadCounters, AwaitCounters, Dispatch, Tick, Leave, Insert, Trim, Close,
                GetPage, GetCurrent, GetPerSecond, Request, HaveCurrent, EnoughSamples, GetAggregators,
                Answer, Has, Dispatched, vars
  <1> QED
    BY <1>1, <1>2, <1>3, <1>4, <1>5 DEF Next, Stopping

LEMMA StepIInv == IInv /\ [Next]_vars => IInv'
  BY TypeStep, FuturesMove, PlacesStep, LockStep, SampleStep, FetcherMove, NullMove, StopStep,
     OrderMove, ConnMove DEF IInv

-----------------------------------------------------------------------------
\* What follows from the invariant

LEMMA HangsFollow == IInv => HangsOnlyInWaits
  <1> SUFFICES ASSUME IInv, nulls = Cardinality(Workers), ~gone, \A v \in Workers : Blocked(v),
                      NEW w \in joins
               PROVE  doing[w] = Ended \/ Waits(w)
    BY DEF HangsOnlyInWaits
  <1>1. /\ TypeOK /\ FetcherInv /\ w \in Workers /\ signalled # w
        /\ \A v \in Workers : at[v] = "trim" <=> agLock = v
    BY DEF IInv, TypeOK, StopInv, LockInv
  <1>2. ASSUME NEW v \in Workers, at[v] = "trim" PROVE doing[v] = Fetcher
    <2>1. doing[v] \in AllItems
      BY <1>1 DEF TypeOK, AllItems
    <2>2. Place(doing[v], "trim", toAdd[v], open[v])
      BY <1>2 DEF IInv, PlacesInv
    <2>3. doing[v].kind \notin {"idle", "ended", "read", "connection"} /\ doing[v] # Null
      BY <2>2 DEF Place
    <2> QED
      BY <2>1, <2>3, ItemCases
  <1>3. agLock # Main => agLock \in Workers /\ at[agLock] = "trim" /\ doing[agLock] = Fetcher
    BY <1>1, <1>2 DEF TypeOK
  <1>7. holds # "queue"
    <2>1. Cardinality(Workers) # 0
      BY ThreadsAssumption, FS_EmptySet
    <2> QED
      BY <2>1 DEF IInv, StopInv
  <1>4. ~(doing[w] = Idle /\ workQ = <<>>)
    <2> SUFFICES ASSUME doing[w] = Idle, workQ = <<>> PROVE FALSE
      OBVIOUS
    <2>1. InQueue(workQ, Null) = 0
      <3>1. workQ \in Seq(Items) /\ \A i \in DOMAIN workQ : workQ[i] # Null
        BY <1>1 DEF TypeOK
      <3> QED
        BY <3>1, NotInQueue
    <2>2. With(doing, Ended) \in Nat
      BY WithPlaces
    <2>3. With(doing, Ended) = Cardinality(Workers)
      BY <2>1, <2>2 DEF IInv, NullInv, Spent
    <2>4. doing[w] = Ended
      BY <1>1, <2>3, WithPlaces
    <2> QED
      BY <2>4, ItemKinds
  <1>5. ~(at[w] = "dispatch" /\ toAdd[w] = 0 /\ doing[w] = Fetcher /\ agLock # Main)
    BY <1>1, <1>3, OneFetcher
  <1>6. at[w] = "pair" /\ agLock # Main => agLock = signalled
    <2> SUFFICES ASSUME at[w] = "pair", agLock # Main PROVE agLock = signalled
      OBVIOUS
    <2>1. Blocked(agLock)
      BY <1>3
    <2> QED
      BY <1>3, <2>1, ItemKinds DEF Blocked
  <1> QED
    BY <1>1, <1>4, <1>5, <1>6, <1>7 DEF Blocked, Waits

LEMMA ExitFollows == IInv => ExitLosesNothing
  <1> SUFFICES ASSUME IInv, gone, signalled = Main, NEW c \in Conns, conns[c] = "queued" PROVE FALSE
    BY DEF ExitLosesNothing
  <1>1. \A w \in Workers : doing[w] = Ended
    <2>1. nulls = Cardinality(Workers)
      BY PoolSize DEF IInv, StopInv, TypeOK
    <2> QED
      BY <2>1 DEF IInv, StopInv
  <1>2. \A j \in DOMAIN workQ : workQ[j].kind # "connection"
    BY <1>1, ThreadsAssumption DEF IInv, OrderInv, TypeOK
  <1> QED
    BY <1>1, <1>2, ItemKinds DEF IInv, ConnInv, Queued

Pair(w) ==
    at[w] = "pair" /\ at'[w] = "answer" /\ asked[w] < Kept =>
        asked[w] + 1 <= Len(agVector) /\ agVector[1] - agVector[asked[w] + 1] = asked[w]

LEMMA PairApart == IInv => \A w \in Workers : Pair(w)
  <1> SUFFICES ASSUME IInv, NEW w \in Workers, at[w] = "pair", asked[w] < Kept
               PROVE  asked[w] + 1 <= Len(agVector) /\ agVector[1] - agVector[asked[w] + 1] = asked[w]
    BY DEF Pair
  <1>1. asked[w] \in Nat /\ samples \in Nat /\ Len(agVector) \in Nat /\ DOMAIN agVector = 1 .. Len(agVector)
    BY SizesAssumption DEF IInv, TypeOK
  <1>2. asked[w] + 1 <= Len(agVector)
    BY DEF IInv, SampleInv
  <1>3. 1 \in DOMAIN agVector /\ asked[w] + 1 \in DOMAIN agVector
    BY <1>1, <1>2
  <1>4. agVector[1] = samples + 1 - 1 /\ agVector[asked[w] + 1] = samples + 1 - (asked[w] + 1)
    BY <1>3 DEF IInv, SampleInv
  <1> QED
    BY <1>1, <1>2, <1>4

-----------------------------------------------------------------------------
\* The inductive invariant holds throughout: futures, places, mutex, samples and
\* null items fit together in whatever order the threads run.
THEOREM Invariance == Spec => []IInv
  BY InitIInv, StepIInv, PTL DEF Spec

\* No thread leaves the places its item has, no count its bound
\* (pcm-sensor-server.cpp 2500-2760, threadpool.h).
THEOREM TypeCorrect == Spec => []TypeOK
  <1>1. IInv => TypeOK
    BY DEF IInv
  <1> QED
    BY <1>1, Invariance, PTL

\* A worker waits for as many reads as are in the queue or in hand for it.
THEOREM FuturesCorrect == Spec => []FuturesMatch
  <1>1. IInv => FuturesMatch
    BY DEF IInv
  <1> QED
    BY <1>1, Invariance, PTL

\* With any number of threads, a pool that was told to stop and stands still
\* hangs on reads, samples or the mutex of an interrupted fetcher, and on
\* nothing else.
THEOREM HangsCorrect == Spec => []HangsOnlyInWaits
  BY HangsFollow, Invariance, PTL

\* An exit by way of the main thread loses no connection but the one in its hand.
THEOREM ExitCorrect == Spec => []ExitLosesNothing
  BY ExitFollows, Invariance, PTL

\* When every thread of the pool waits for reads, which it takes a thread to do,
\* the pool never moves again: no thread ever takes another step.
AllAwait == \A w \in Workers : at[w] = "dispatch" /\ toAdd[w] = 0 /\ open[w] > 0

THEOREM AllAwaitForGood == Spec => [][AllAwait => AllAwait' /\ \A w \in Workers : ~WorkerStep(w)]_vars
  <1>1. ASSUME IInv, AllAwait, NEW w \in Workers PROVE ~WorkerStep(w)
    <2>1. at[w] = "dispatch" /\ toAdd[w] = 0 /\ open[w] > 0 /\ open[w] # 0 /\ ~(toAdd[w] > 0)
      <3>1. at[w] = "dispatch" /\ toAdd[w] = 0 /\ open[w] > 0 /\ open[w] \in Nat
        BY <1>1 DEF AllAwait, IInv, TypeOK
      <3> QED
        BY <3>1
    <2>2. doing[w] # Idle
      BY <1>1, <2>1, ItemKinds DEF IInv, PlacesInv, Place
    <2> QED
      BY <2>1, <2>2 DEF WorkerStep, RetrieveWork, ReadCounters, AwaitCounters, Dispatch, Tick, Leave, Insert, Trim,
                        Close, GetPage, GetCurrent, GetPerSecond, Request, HaveCurrent, EnoughSamples,
                        GetAggregators, Answer, Has, Dispatched
  <1>2. ASSUME IInv, AllAwait, [Next]_vars PROVE AllAwait'
    <2>1. UNCHANGED <<at, toAdd, open>>
      BY <1>1, <1>2 DEF Next, Accept, Refuse, AddWork, HandleSignal, Stopping, AddNull, CountNull, Joined, vars, pool
    <2> QED
      BY <1>2, <2>1 DEF AllAwait
  <1>3. IInv /\ [Next]_vars => [AllAwait => AllAwait' /\ \A w \in Workers : ~WorkerStep(w)]_vars
    BY <1>1, <1>2
  <1> QED
    BY <1>3, Invariance, PTL DEF Spec

\* Samples given for X seconds lie X apart, for every X but the largest.
THEOREM SamplesCorrect == Spec => SamplesApart
  <1>1. IInv => [\A w \in Workers : Pair(w)]_vars
    BY PairApart
  <1> QED
    BY <1>1, Invariance, PTL DEF SamplesApart, Pair

=============================================================================
