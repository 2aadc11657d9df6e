------------------------ MODULE WidthExtenderProofs -------------------------
(***************************************************************************)
(* For every width, any set of counters and any number of counts: what a   *)
(* thread reads from the shared registers is its own event (or event 0     *)
(* after the cleanup), the extended value is exact unless a whole wrap     *)
(* went by unread or a read went wrong, and it implements a counter of     *)
(* unbounded width.  Inv (WidthExtender) is the inductive invariant.       *)
(***************************************************************************)
EXTENDS WidthExtender, TLAPS

\* Two raw values that lie less than a wrap apart differ by what was counted.
LEMMA DifferenceIsGap ==
    ASSUME NEW x \in 0 .. Width - 1, NEW g \in Nat, g < Width
    PROVE  Difference(Wrap(x + g), x) = g
  BY WidthAssumption DEF Difference, Wrap

\* A difference is a number of counts below a wrap; of a value to itself it is 0.
LEMMA DifferenceBounds ==
    ASSUME NEW x \in 0 .. Width - 1, NEW y \in 0 .. Width - 1
    PROVE  Difference(y, x) \in 0 .. Width - 1 /\ Difference(x, x) = 0
  BY WidthAssumption DEF Difference

\* What a read can return: a value below the width or an error.
LEMMA ValuesAreNat ==
    /\ \A v \in Values : v \in Nat /\ v # -1
    /\ \A v \in 0 .. Width - 1 : v \in Values
    /\ \A c \in Counters : Wrong(c) \subseteq Values
    /\ 0 \in Values
  BY WidthAssumption, ErrorsAssumption DEF Values, Wrong

LEMMA DifferenceIsInt ==
    ASSUME NEW x \in Values, NEW y \in Values
    PROVE  Difference(y, x) \in Int /\ Difference(x, x) = 0
  BY ValuesAreNat, WidthAssumption DEF Difference

\* k widths are at least k, and one more width makes k + 1 of them.
LEMMA Widths ==
    ASSUME NEW k \in Nat
    PROVE  /\ k * Width \in Nat /\ k <= k * Width
           /\ (k + 1) * Width = k * Width + Width
<1>1. k * Width \in Nat /\ (k + 1) * Width = k * Width + Width
  BY WidthAssumption
<1>2. k * (Width - 1) >= 0 /\ k * Width = k * (Width - 1) + k
  BY WidthAssumption
<1>3. k * (Width - 1) \in Int
  BY WidthAssumption
<1> QED
  BY <1>1, <1>2, <1>3

\* A value that starts again is no width away from the last one.
LEMMA NoWidths ==
    ASSUME NEW c \in Counters, last_raw_value[c] \in Nat, extended_value[c] = last_raw_value[c]
    PROVE  WholeWidths(c)
<1>1. 0 * Width = 0
  BY WidthAssumption
<1> QED
  BY <1>1 DEF WholeWidths

\* internal_read adds up to the new value and a whole number of widths, whatever
\* the two raw values are.
LEMMA ExtendWhole ==
    ASSUME NEW c \in Counters, extended_value[c] \in Nat, last_raw_value[c] \in Nat,
           WholeWidths(c), NEW v \in Nat
    PROVE  LET e == extended_value[c] + Difference(v, last_raw_value[c])
           IN  e \in Nat /\ \E k \in 0 .. e : e = v + k * Width
<1> DEFINE e == extended_value[c] + Difference(v, last_raw_value[c])
<1>1. PICK k \in 0 .. extended_value[c] : extended_value[c] = last_raw_value[c] + k * Width
  BY DEF WholeWidths
<1>2. k \in Nat /\ k * Width \in Nat /\ k <= k * Width
      /\ (k + 1) * Width \in Nat /\ k + 1 <= (k + 1) * Width
      /\ (k + 1) * Width = k * Width + Width
  <2>1. k \in Nat /\ k + 1 \in Nat
    OBVIOUS
  <2> QED
    BY <2>1, Widths
<1>3. CASE v < last_raw_value[c]
  <2>1. e = v + (k + 1) * Width
    BY <1>1, <1>2, <1>3, WidthAssumption DEF Difference
  <2>2. e \in Nat /\ k + 1 \in 0 .. e
    BY <1>2, <2>1
  <2> QED
    BY <2>1, <2>2
<1>4. CASE ~(v < last_raw_value[c])
  <2>1. e = v + k * Width
    BY <1>1, <1>2, <1>4 DEF Difference
  <2>2. e \in Nat /\ k \in 0 .. e
    BY <1>2, <2>1
  <2> QED
    BY <2>1, <2>2
<1> QED
  BY <1>3, <1>4

LEMMA InitInv == Init => Inv
<1> SUFFICES ASSUME Init PROVE Inv
  OBVIOUS
<1>0. \A c \in Counters : raw[c] \in 0 .. Width - 1 /\ last_raw_value[c] \in Nat
  BY ValuesAreNat DEF Init
<1>1. TypeOK
  BY <1>0, WidthAssumption, ValuesAreNat DEF Init, TypeOK
<1>2. HoldersInv
  BY NamesAssumption DEF Init, HoldersInv, Threads, Counters
<1>3. ASSUME NEW c \in Counters PROVE WholeWidths(c)
  BY <1>0, NoWidths DEF Init
<1>4. ASSUME NEW c \in Counters, c \notin failed PROVE ValueInv(c)
  <2>1. last_raw_value[c] = raw[c] /\ extended_value[c] = raw[c] /\ total[c] = raw[c]
        /\ gap[c] = 0
    BY <1>4 DEF Init
  <2>2. Base(c) = raw[c] /\ Pending(c) = raw[c] + Difference(raw[c], raw[c])
    BY <2>1 DEF Init, Base, Pending
  <2>3. raw[c] \in 0 .. Width - 1 /\ Difference(raw[c], raw[c]) = 0
    BY <1>0, DifferenceBounds
  <2> QED
    BY <2>1, <2>2, <2>3, WidthAssumption DEF ValueInv, Wrap
<1> QED
  BY <1>1, <1>2, <1>3, <1>4 DEF Inv

\* A thread is either a watchdog or the reader, and never No thread.
LEMMA NoneIsNobody ==
    /\ None \notin Threads /\ None \notin Counters /\ Occupancy \notin Counters
    /\ Occupancy # None /\ Reader \in Threads
    /\ NoEvent \notin Counters /\ NoEvent # Occupancy
  BY NamesAssumption DEF Threads

\* A thread between two reads does not hold the handle's mutex.
LEMMA IdleHoldsNothing == ASSUME Inv, NEW t \in Threads, doing[t] = None PROVE msrLock # t
  BY NoneIsNobody DEF Inv, TypeOK, HoldersInv, Counters

LEMMA CountInv == ASSUME Inv, NEW c \in Counters, Count(c) PROVE Inv'
<1> USE DEF Count, hardware, software
<1>1. TypeOK'
  BY WidthAssumption DEF Inv, TypeOK
<1>2. HoldersInv'
  BY DEF Inv, HoldersInv, Selects
<1>3. ASSUME NEW d \in Counters, d \notin failed PROVE ValueInv(d)'
  <2>1. Base(d)' = Base(d) /\ Pending(d)' = Pending(d)
    BY DEF Base, Pending
  <2>2. CASE d # c
    BY <1>3, <2>1, <2>2 DEF Inv, ValueInv, TypeOK
  <2>3. CASE d = c
    <3>1. gap'[c] = gap[c] + 1 /\ total'[c] = total[c] + 1
      BY DEF Inv, TypeOK
    <3>2. raw'[c] = IF raw[c] + 1 = Width THEN 0 ELSE raw[c] + 1
      BY DEF Inv, TypeOK
    <3>3. Base(c) \in Values /\ last_raw_value[c] \in Values
      BY DEF Inv, TypeOK, HoldersInv, Base
    <3>4. Pending(c) \in Int /\ gap[c] \in Nat /\ total[c] \in Nat /\ Base(c) \in Nat
      BY <3>3, ValuesAreNat, DifferenceIsInt DEF Inv, TypeOK, Pending
    <3>5. ValueInv(c)
      BY <1>3, <2>3 DEF Inv
    <3> QED
      BY <2>1, <2>3, <3>1, <3>2, <3>4, <3>5, WidthAssumption DEF ValueInv, Wrap
  <2> QED
    BY <2>2, <2>3
<1>4. ASSUME NEW d \in Counters PROVE WholeWidths(d)'
  BY DEF Inv, WholeWidths
<1> QED
  BY <1>1, <1>2, <1>3, <1>4 DEF Inv

\* A step that changes no counter keeps the values if it keeps who holds what.
LEMMA SameValues ==
    ASSUME Inv, NEW c \in Counters, UNCHANGED <<raw, total, software, gap, lost>>,
           Base(c)' = Base(c)
    PROVE  WholeWidths(c)' /\ (c \notin failed => ValueInv(c)')
  BY DEF Inv, ValueInv, WholeWidths, Pending, software

\* cleanupRDT changes the event select of the core and nothing else.
LEMMA CleanupInv == ASSUME Inv, Cleanup PROVE Inv'
<1> USE DEF Cleanup, software, history
<1>1. TypeOK'
  BY DEF Inv, TypeOK
<1>2. HoldersInv'
  BY DEF Inv, HoldersInv, Selects
<1>3. ASSUME NEW d \in Counters PROVE WholeWidths(d)' /\ (d \notin failed' => ValueInv(d)')
  BY SameValues DEF Base
<1> QED
  BY <1>1, <1>2, <1>3 DEF Inv

LEMMA LockCounterInv ==
    ASSUME Inv, NEW t \in Threads, NEW c \in Counters, LockCounter(t, c) PROVE Inv'
<1> USE DEF LockCounter, hardware, software, history
<1>1. TypeOK'
  BY DEF Inv, TypeOK, hardware, software
<1>2. HoldersInv'
  <2>1. /\ \A u \in Threads : msrLock = u => u # t
        /\ got[t] = -1
    BY IdleHoldsNothing, NoneIsNobody DEF Inv, HoldersInv
  <2>2. \A u \in Threads : doing'[u] = IF u = t THEN c ELSE doing[u]
    BY DEF Inv, TypeOK
  <2>3. \A d \in Counters : counterLock'[d] = IF d = c THEN t ELSE counterLock[d]
    BY DEF Inv, TypeOK
  <2> QED
    BY <2>1, <2>2, <2>3, NoneIsNobody DEF Inv, TypeOK, HoldersInv, Selects
<1>3. ASSUME NEW d \in Counters PROVE WholeWidths(d)' /\ (d \notin failed' => ValueInv(d)')
  <2>1. got[t] = -1
    BY NoneIsNobody DEF Inv, HoldersInv
  <2>2. Base(d)' = Base(d)
    BY <2>1, NoneIsNobody DEF Inv, TypeOK, Base, hardware, software
  <2> QED
    BY <2>2, SameValues
<1> QED
  BY <1>1, <1>2, <1>3 DEF Inv

LEMMA SelectEventInv ==
    ASSUME Inv, NEW t \in Threads, NEW e \in Shared \cup {Occupancy}, SelectEvent(t, e)
    PROVE  Inv'
<1> USE DEF SelectEvent, hardware, software, history
<1>1. TypeOK'
  BY DEF Inv, TypeOK, hardware, software
<1>2. HoldersInv'
  BY NoneIsNobody DEF Inv, TypeOK, HoldersInv, Selects, Counters
<1>3. ASSUME NEW d \in Counters PROVE WholeWidths(d)' /\ (d \notin failed' => ValueInv(d)')
  BY SameValues DEF Base, software
<1> QED
  BY <1>1, <1>2, <1>3 DEF Inv

\* Reading the raw value of the counter a thread holds.
LEMMA SampledInv ==
    ASSUME Inv, NEW t \in Threads, NEW c \in Counters, doing[t] = c, got[t] = -1,
           Sampled(t, c), msrLock' \in {msrLock, None}, msrLock' # t,
           UNCHANGED <<hardware, evtsel, counterLock, software, doing>>
    PROVE  Inv'
<1> USE DEF Sampled
<1>1. TypeOK'
  BY ValuesAreNat DEF Inv, TypeOK, hardware, software
<1>2. HoldersInv'
  BY NoneIsNobody DEF Inv, TypeOK, HoldersInv, Selects, hardware
<1>3. counterLock[c] = t /\ t # None
  BY NoneIsNobody DEF Inv, HoldersInv
<1>5. ASSUME NEW d \in Counters PROVE WholeWidths(d)'
  BY DEF Inv, WholeWidths, software
<1>4. ASSUME NEW d \in Counters, d \notin failed PROVE ValueInv(d)'
  <2>1. CASE d # c
    <3>1. counterLock[d] # t
      BY <2>1, NoneIsNobody DEF Inv, HoldersInv
    <3>2. Base(d)' = Base(d)
      BY <3>1, NoneIsNobody DEF Inv, TypeOK, Base, software
    <3> QED
      BY <1>4, <2>1, <3>2 DEF Inv, TypeOK, ValueInv, Pending, hardware, software
  <2>2. CASE d = c
    <3>0. ValueInv(c) /\ last_raw_value[c] \in 0 .. Width - 1 /\ raw[c] \in 0 .. Width - 1
      <4>1. ValueInv(c)
        BY <1>4, <2>2 DEF Inv
      <4>2. last_raw_value[c] \in Nat
        BY ValuesAreNat DEF Inv, TypeOK
      <4> QED
        BY <4>1, <4>2, WidthAssumption DEF ValueInv, Inv, TypeOK
    <3>1. Base(c) = last_raw_value[c] /\ Base(c)' = raw[c]
      BY <1>3 DEF Inv, TypeOK, Base, software
    <3>2. gap'[c] = 0 /\ lost'[c] = (lost[c] \/ gap[c] >= Width)
      BY DEF Inv, TypeOK
    <3>3. Pending(c) = extended_value[c] /\ Pending(c)' = extended_value[c] + Difference(raw[c], last_raw_value[c])
      BY <3>0, <3>1, DifferenceBounds DEF Inv, TypeOK, Pending, software
    <3>4. Difference(raw[c], last_raw_value[c]) \in 0 .. Width - 1
      BY <3>0, DifferenceBounds
    <3>5. gap[c] < Width => Difference(raw[c], last_raw_value[c]) = gap[c]
      BY <3>0, <3>1, DifferenceIsGap DEF Inv, TypeOK, ValueInv
    <3>6. raw[c] = Wrap(raw[c] + 0)
      BY WidthAssumption DEF Inv, TypeOK, Wrap
    <3>7. /\ extended_value[c] + gap[c] <= total[c]
          /\ lost[c] \/ extended_value[c] + gap[c] = total[c]
      BY <3>0, <3>3 DEF ValueInv
    <3>8. /\ extended_value[c] \in Nat /\ gap[c] \in Nat /\ total[c] \in Nat
          /\ total'[c] = total[c] /\ raw'[c] = raw[c]
      BY DEF Inv, TypeOK, hardware
    <3> HIDE DEF Sampled
    <3>9. Pending(c)' + gap'[c] <= total'[c]
      <4>1. CASE gap[c] < Width
        BY <4>1, <3>2, <3>3, <3>4, <3>5, <3>7, <3>8
      <4>2. CASE gap[c] >= Width
        BY <4>2, <3>2, <3>3, <3>4, <3>7, <3>8, WidthAssumption
      <4> QED
        BY <4>1, <4>2, <3>8, WidthAssumption
    <3>10. lost'[c] \/ Pending(c)' + gap'[c] = total'[c]
      <4>1. ~lost'[c] => ~lost[c] /\ ~(gap[c] >= Width)
        BY <3>2, Zenon
      <4>2. ~lost[c] => extended_value[c] + gap[c] = total[c]
        BY <3>7, Zenon
      <4>3. ~(gap[c] >= Width) => gap[c] < Width
        BY <3>8, WidthAssumption
      <4>4. gap[c] < Width /\ extended_value[c] + gap[c] = total[c]
            => Pending(c)' + gap'[c] = total'[c]
        BY <3>2, <3>3, <3>5, <3>8
      <4> QED
        BY <4>1, <4>2, <4>3, <4>4, Zenon
    <3>11. gap'[c] < Width => raw'[c] = Wrap(Base(c)' + gap'[c])
      BY <3>1, <3>2, <3>6, <3>8
    <3>13. (last_raw_value[c] < Width /\ Base(c) < Width)'
      BY <3>0, <3>1, WidthAssumption DEF software
    <3>12. ValueInv(c)'
      <4>1. (gap[c] < Width => raw[c] = Wrap(Base(c) + gap[c]))'
        BY <3>11 DEF Wrap
      <4>2. (Pending(c) + gap[c] <= total[c])'
        BY <3>9
      <4>3. (lost[c] \/ Pending(c) + gap[c] = total[c])'
        BY <3>10, Zenon
      <4> QED
        BY <4>1, <4>2, <4>3, <3>13, Zenon DEF ValueInv
    <3> QED
      BY <2>2, <3>12
  <2> QED
    BY <2>1, <2>2
<1> QED
  BY <1>1, <1>2, <1>4, <1>5 DEF Inv, Sampled

\* A read that goes wrong only takes the counter out of the promise.
LEMMA MisreadInv ==
    ASSUME Inv, NEW t \in Threads, NEW v \in Values, doing[t] \in Counters, got[t] = -1,
           Misread(t, v), failures' \in Nat, msrLock' \in {msrLock, None}, msrLock' # t,
           UNCHANGED <<hardware, evtsel, counterLock, software, doing>>
    PROVE  Inv'
<1> USE DEF Misread
<1>1. TypeOK'
  BY DEF Inv, TypeOK, hardware, software
<1>2. HoldersInv'
  BY NoneIsNobody, ValuesAreNat DEF Inv, TypeOK, HoldersInv, Selects, hardware
<1>3. ASSUME NEW d \in Counters PROVE WholeWidths(d)'
  BY DEF Inv, WholeWidths, software
<1>4. ASSUME NEW d \in Counters, d \notin failed' PROVE ValueInv(d)'
  <2>1. d # doing[t] /\ d \notin failed
    BY <1>4
  <2>2. counterLock[d] # t
    BY <2>1, NoneIsNobody DEF Inv, HoldersInv
  <2>3. Base(d)' = Base(d)
    BY <2>2, NoneIsNobody DEF Inv, TypeOK, Base, software
  <2> QED
    BY <2>1, <2>3, SameValues DEF hardware
<1> QED
  BY <1>1, <1>2, <1>3, <1>4 DEF Inv

\* However a read goes wrong, it is a value of the counter's register.
LEMMA FailsInv ==
    ASSUME Inv, NEW t \in Threads, doing[t] \in Counters, ReadFails(t) \/ ReadOther(t)
    PROVE  failures' \in Nat /\ \E v \in Values : Misread(t, v)
  BY ValuesAreNat DEF Inv, TypeOK, ReadFails, ReadOther

LEMMA ReadSharedInv ==
    ASSUME Inv, NEW t \in Threads, ReadShared(t) PROVE Inv'
<1>1. doing[t] \in Counters /\ got[t] = -1
  BY DEF ReadShared, Counters
<1>2. /\ msrLock' \in {msrLock, None} /\ msrLock' # t
      /\ UNCHANGED <<hardware, evtsel, counterLock, software, doing>>
  BY NoneIsNobody DEF ReadShared
<1>3. CASE evtsel \in Shared /\ ~cleaned /\ Sampled(t, evtsel)
  <2>1. doing[t] = evtsel
    BY <1>3, NoneIsNobody DEF ReadShared, Inv, HoldersInv, Selects
  <2> QED
    BY <1>1, <1>2, <1>3, <2>1, SampledInv
<1>4. CASE ReadFails(t) \/ ReadOther(t)
  BY <1>1, <1>2, <1>4, FailsInv, MisreadInv
<1> QED
  BY <1>3, <1>4 DEF ReadShared

LEMMA ReadPrivateInv ==
    ASSUME Inv, NEW t \in Threads, ReadPrivate(t) PROVE Inv'
<1>1. doing[t] \in Counters /\ got[t] = -1
  BY DEF ReadPrivate, Counters
<1>2. msrLock # t
  BY NamesAssumption DEF ReadPrivate, Inv, TypeOK, HoldersInv, Counters
<1>3. UNCHANGED <<hardware, evtsel, msrLock, counterLock, software, doing>>
  BY DEF ReadPrivate
<1>4. CASE Sampled(t, doing[t])
  BY <1>1, <1>2, <1>3, <1>4, SampledInv
<1>5. CASE ReadFails(t)
  BY <1>1, <1>2, <1>3, <1>5, FailsInv, MisreadInv
<1> QED
  BY <1>4, <1>5 DEF ReadPrivate

LEMMA ExtendInv ==
    ASSUME Inv, NEW t \in Threads, NEW c \in Counters, Extend(t, c) PROVE Inv'
<1> USE DEF Extend, hardware, history
<1>0. got[t] \in Values /\ counterLock[c] = t /\ t # None /\ c \in Counters
  BY NoneIsNobody DEF Inv, TypeOK, HoldersInv
<1>e. /\ extended_value'[c] \in Nat /\ last_raw_value'[c] = got[t]
      /\ \E k \in 0 .. extended_value'[c] : extended_value'[c] = got[t] + k * Width
  <2>1. last_raw_value[c] \in Nat /\ extended_value[c] \in Nat /\ got[t] \in Nat
    BY <1>0, ValuesAreNat DEF Inv, TypeOK
  <2>2. WholeWidths(c)
    BY DEF Inv
  <2>3. extended_value'[c] = extended_value[c] + Difference(got[t], last_raw_value[c])
        /\ last_raw_value'[c] = got[t]
    BY DEF Inv, TypeOK
  <2> QED
    BY <2>1, <2>2, <2>3, ExtendWhole
<1>1. TypeOK'
  <2>1. extended_value' \in [Counters -> Nat]
    BY <1>e DEF Inv, TypeOK
  <2>2. /\ last_raw_value' \in [Counters -> Values]
        /\ got' \in [Threads -> {-1} \cup Values]
    BY <1>0 DEF Inv, TypeOK
  <2> QED
    BY <2>1, <2>2 DEF Inv, TypeOK
<1>2. HoldersInv'
  BY NoneIsNobody DEF Inv, TypeOK, HoldersInv, Selects
<1>4. ASSUME NEW d \in Counters PROVE WholeWidths(d)'
  BY <1>e DEF Inv, TypeOK, WholeWidths
<1>3. ASSUME NEW d \in Counters, d \notin failed PROVE ValueInv(d)'
  <2>1. CASE d # c
    <3>1. counterLock[d] # t
      BY <2>1, NoneIsNobody DEF Inv, HoldersInv
    <3>2. Base(d)' = Base(d)
      BY <2>1, <3>1, NoneIsNobody DEF Inv, TypeOK, Base
    <3> QED
      BY <1>3, <2>1, <3>2 DEF Inv, TypeOK, ValueInv, Pending
  <2>2. CASE d = c
    <3>1. Base(c) = got[t] /\ Base(c)' = got[t] /\ last_raw_value'[c] = got[t]
      BY <1>0 DEF Inv, TypeOK, Base
    <3>2. extended_value'[c] = Pending(c)
      BY <3>1 DEF Inv, TypeOK, Pending
    <3>3. Pending(c)' = extended_value'[c]
      <4>1. Difference(got[t], got[t]) = 0
        BY <1>0, DifferenceIsInt
      <4> QED
        BY <1>e, <3>1, <4>1 DEF Pending, Difference
    <3>4. ValueInv(c)
      BY <1>3, <2>2 DEF Inv
    <3> QED
      BY <2>2, <3>1, <3>2, <3>3, <3>4 DEF ValueInv
  <2> QED
    BY <2>1, <2>2
<1> QED
  BY <1>1, <1>2, <1>3, <1>4 DEF Inv

LEMMA OccupancyInv == ASSUME Inv, StartOccupancy \/ ReadOccupancy PROVE Inv'
<1> USE DEF StartOccupancy, ReadOccupancy, hardware, software, history
<1>1. TypeOK'
  BY DEF Inv, TypeOK, hardware, software
<1>2. HoldersInv'
  <2>1. CASE StartOccupancy
    <3>1. msrLock # Reader /\ got[Reader] = -1
      BY <2>1, IdleHoldsNothing, NoneIsNobody DEF Inv, HoldersInv
    <3>2. \A t \in Threads : doing'[t] = IF t = Reader THEN Occupancy ELSE doing[t]
      BY <2>1 DEF Inv, TypeOK
    <3>3. \A c \in Counters : counterLock[c] # None => counterLock[c] # Reader
      BY <2>1, NoneIsNobody DEF Inv, HoldersInv
    <3>4. UNCHANGED <<msrLock, evtsel, counterLock, got, cleaned>>
      BY <2>1
    <3> HIDE DEF StartOccupancy, ReadOccupancy
    <3> QED
      BY <3>1, <3>2, <3>3, <3>4, NoneIsNobody DEF Inv, TypeOK, HoldersInv, Selects
  <2>2. CASE ReadOccupancy
    BY <2>2, NoneIsNobody DEF Inv, TypeOK, HoldersInv, Selects
  <2> QED
    BY <2>1, <2>2
<1>3. ASSUME NEW d \in Counters PROVE WholeWidths(d)' /\ (d \notin failed' => ValueInv(d)')
  BY SameValues DEF Base
<1> QED
  BY <1>1, <1>2, <1>3 DEF Inv

LEMMA ResetInv == ASSUME Inv, NEW c \in Private, Reset(c) PROVE Inv'
<1>0. c \in Counters /\ raw[c] \in 0 .. Width - 1 /\ raw[c] \in Nat
      /\ raw[c] \in Values /\ 0 \in Values
  BY WidthAssumption, ValuesAreNat DEF Inv, TypeOK, Counters
<1>5. PICK v \in {raw[c], 0} :
         /\ StartAgain(c, v)
         /\ v # raw[c] => c \in failed'
         /\ failed' \in {failed \ {c}, failed \cup {c}} /\ failures' \in Nat
  BY DEF Reset, Inv, TypeOK
<1> USE DEF StartAgain
<1>1. TypeOK'
  <2>1. v \in Nat /\ v \in Values
    BY <1>0
  <2> QED
    BY <1>0, <1>5, <2>1 DEF Inv, TypeOK
<1>2. HoldersInv'
  BY <1>5 DEF Inv, HoldersInv, Selects
<1>4. ASSUME NEW d \in Counters PROVE WholeWidths(d)'
  <2>1. CASE d # c
    BY <1>5, <2>1 DEF Inv, TypeOK, WholeWidths
  <2>2. CASE d = c
    <3>1. extended_value'[c] = v /\ last_raw_value'[c] = v /\ v \in Nat
      BY <1>0, <1>5 DEF Inv, TypeOK
    <3>2. v = v + 0 * Width /\ 0 \in 0 .. v
      BY <3>1, WidthAssumption
    <3> QED
      BY <2>2, <3>1, <3>2 DEF WholeWidths
  <2> QED
    BY <2>1, <2>2
<1>3. ASSUME NEW d \in Counters, d \notin failed' PROVE ValueInv(d)'
  <2>1. CASE d # c
    <3>1. d \notin failed
      BY <1>3, <1>5, <2>1
    <3> QED
      BY <1>5, <2>1, <3>1 DEF Inv, TypeOK, ValueInv, Pending, Base
  <2>2. CASE d = c
    <3>0. v = raw[c]
      BY <1>3, <1>5, <2>2
    <3>1. Base(c)' = raw[c] /\ last_raw_value'[c] = raw[c] /\ extended_value'[c] = raw[c]
      BY <1>0, <1>5, <3>0 DEF Inv, TypeOK, Base
    <3>2. Pending(c)' = raw[c]
      BY <1>0, <3>1, DifferenceBounds DEF Pending, Difference
    <3>3. gap'[c] = 0 /\ total'[c] = raw[c] /\ raw'[c] = raw[c]
      BY <1>0, <1>5 DEF Inv, TypeOK
    <3> QED
      BY <1>0, <2>2, <3>1, <3>2, <3>3, WidthAssumption DEF ValueInv, Wrap
  <2> QED
    BY <2>1, <2>2
<1> QED
  BY <1>1, <1>2, <1>3, <1>4 DEF Inv

LEMMA StutterInv == Inv /\ UNCHANGED vars => Inv'
  BY DEF vars, Inv, TypeOK, HoldersInv, Selects, WholeWidths, ValueInv, Base, Pending

LEMMA NextInv == Inv /\ [Next]_vars => Inv'
<1> SUFFICES ASSUME Inv, [Next]_vars PROVE Inv'
  OBVIOUS
<1>1. ASSUME NEW c \in Counters, Count(c) PROVE Inv'
  BY <1>1, CountInv
<1>2. ASSUME NEW t \in Threads, Step(t) PROVE Inv'
  BY <1>2, LockCounterInv, ExtendInv, SelectEventInv, ReadSharedInv, ReadPrivateInv,
     OccupancyInv DEF Step
<1>3. CASE StartOccupancy
  BY <1>3, OccupancyInv
<1>4. ASSUME NEW c \in Private, Reset(c) PROVE Inv'
  BY <1>4, ResetInv
<1>5. CASE UNCHANGED vars
  BY <1>5, StutterInv
<1>6. CASE Cleanup
  BY <1>6, CleanupInv
<1> QED
  BY <1>1, <1>2, <1>3, <1>4, <1>5, <1>6 DEF Next

THEOREM Invariance == Spec => []Inv
  BY InitInv, NextInv, PTL DEF Spec

\* Type correctness of every reachable state.
THEOREM TypeCorrect == Spec => []TypeOK
<1>1. Inv => TypeOK
  BY DEF Inv
<1> QED
  BY Invariance, <1>1, PTL

\* Whatever the threads interleave, who holds the handle's mutex has the event
\* selected that it asked for, or event 0 that the cleanup wrote without the mutex.
THEOREM SelectedCorrect == Spec => []SelectedIsMine
<1>1. Inv => SelectedIsMine
  BY DEF Inv, TypeOK, HoldersInv, SelectedIsMine
<1> QED
  BY Invariance, <1>1, PTL

\* For every counter width: no count is lost or counted twice as long as no
\* whole wrap lies between two reads and no read went wrong, and whatever wrong
\* reads return, they add a whole number of widths.
THEOREM ExactCorrect == Spec => []ExtendedIsExact
<1>1. Inv => ExtendedIsExact
  <2> SUFFICES ASSUME Inv, NEW c \in Counters
               PROVE  /\ counterLock[c] = None /\ ~lost[c] /\ c \notin failed
                            => extended_value[c] = total[c] - gap[c]
                      /\ WholeWidths(c)
    BY DEF ExtendedIsExact
  <2>1. WholeWidths(c)
    BY DEF Inv
  <2>2. ASSUME counterLock[c] = None, ~lost[c], c \notin failed
        PROVE  extended_value[c] = total[c] - gap[c]
    <3>1. Base(c) = last_raw_value[c]
      BY <2>2 DEF Base
    <3>2. Difference(last_raw_value[c], last_raw_value[c]) = 0
      BY DifferenceIsInt DEF Inv, TypeOK
    <3>3. Pending(c) = extended_value[c]
      BY <3>1, <3>2 DEF Inv, TypeOK, Pending
    <3>4. ValueInv(c)
      BY <2>2 DEF Inv
    <3> QED
      BY <2>2, <3>3, <3>4 DEF Inv, TypeOK, ValueInv
  <2> QED
    BY <2>1, <2>2
<1> QED
  BY Invariance, <1>1, PTL

-----------------------------------------------------------------------------
\* Every step maps to a step of the unbounded counter or to a stutter.
LEMMA InitRefines == Init => Monotone!Init
  BY ValuesAreNat DEF Init, Monotone!Init

LEMMA ExtendRefines ==
    ASSUME Inv, NEW t \in Threads, NEW c \in Counters, Extend(t, c)
    PROVE  Monotone!Report(c)
<1>1. got[t] \in Values /\ counterLock[c] = t /\ t # None
  BY NoneIsNobody DEF Extend, Inv, TypeOK, HoldersInv
<1>2. Base(c) = got[t]
      /\ Pending(c) = extended_value[c] + Difference(got[t], last_raw_value[c])
  BY <1>1 DEF Extend, Pending, Base
<1>3. extended_value' = [extended_value EXCEPT ![c] = Pending(c)]
      /\ extended_value'[c] = Pending(c)
  BY <1>2 DEF Extend, Inv, TypeOK
<1>4. extended_value'[c] \in Nat
  BY ExtendInv DEF Inv, TypeOK
<1>5. ASSUME c \notin failed PROVE Pending(c) \in extended_value[c] .. total[c]
  <2>1. ValueInv(c)
    BY <1>5 DEF Inv
  <2>2. got[t] \in 0 .. Width - 1 /\ last_raw_value[c] \in 0 .. Width - 1
    BY <1>1, <1>2, <2>1, ValuesAreNat, WidthAssumption DEF ValueInv, Inv, TypeOK
  <2>3. Difference(got[t], last_raw_value[c]) \in 0 .. Width - 1
    BY <2>2, DifferenceBounds
  <2> QED
    BY <1>2, <2>1, <2>3, WidthAssumption DEF Inv, TypeOK, ValueInv
<1> QED
  BY <1>3, <1>4, <1>5 DEF Monotone!Report, Extend, hardware, history

\* A read that goes wrong breaks its counter; a good one is not seen.
LEMMA ReadRefines ==
    ASSUME Inv, NEW t \in Threads, ReadShared(t) \/ ReadPrivate(t)
    PROVE  Monotone!Next \/ UNCHANGED Monotone!vars
<1>1. doing[t] \in Counters /\ UNCHANGED <<total, extended_value>>
  BY DEF ReadShared, ReadPrivate, Counters, hardware, software
<1>2. CASE UNCHANGED failed
  BY <1>1, <1>2 DEF Monotone!vars
<1>3. CASE failed' = failed \cup {doing[t]}
  BY <1>1, <1>3 DEF Monotone!Next, Monotone!Break
<1> QED
  BY <1>2, <1>3 DEF ReadShared, ReadPrivate, Sampled, ReadFails, ReadOther, Misread

LEMMA StepRefines ==
    ASSUME Inv, NEW t \in Threads, Step(t)
    PROVE  Monotone!Next \/ UNCHANGED Monotone!vars
<1> USE DEF hardware, software, history
<1>1. ASSUME NEW c \in Counters, Extend(t, c) PROVE Monotone!Next
  BY <1>1, ExtendRefines DEF Monotone!Next
<1>2. ASSUME NEW c \in Counters, LockCounter(t, c) PROVE UNCHANGED Monotone!vars
  BY <1>2 DEF LockCounter, Monotone!vars
<1>3. ASSUME NEW e \in Shared \cup {Occupancy}, SelectEvent(t, e)
      PROVE  UNCHANGED Monotone!vars
  BY <1>3 DEF SelectEvent, Monotone!vars
<1>4. CASE ReadOccupancy
  BY <1>4 DEF ReadOccupancy, Monotone!vars
<1> QED
  BY <1>1, <1>2, <1>3, <1>4, ReadRefines DEF Step

LEMMA ResetRefines ==
    ASSUME Inv, NEW c \in Private, Reset(c) PROVE Monotone!Restart(c)
<1>1. c \in Counters /\ raw[c] \in 0 .. Width - 1 /\ 0 \in 0 .. Width - 1
  BY WidthAssumption DEF Counters, Inv, TypeOK
<1> USE DEF StartAgain
<1>2. CASE StartAgain(c, raw[c]) /\ failed' = failed \ {c}
  BY <1>1, <1>2 DEF Monotone!Restart
<1>3. CASE StartAgain(c, 0) /\ failed' = failed \cup {c}
  BY <1>1, <1>3 DEF Monotone!Restart
<1> QED
  BY <1>2, <1>3 DEF Reset

LEMMA NextRefines == Inv /\ [Next]_vars => [Monotone!Next]_(Monotone!vars)
<1> SUFFICES ASSUME Inv, [Next]_vars PROVE Monotone!Next \/ UNCHANGED Monotone!vars
  OBVIOUS
<1>1. ASSUME NEW c \in Counters, Count(c) PROVE Monotone!Next
  BY <1>1 DEF Count, software, Monotone!Next, Monotone!Grow
<1>2. ASSUME NEW c \in Private, Reset(c) PROVE Monotone!Next
  BY <1>2, ResetRefines DEF Monotone!Next, Counters
<1>3. CASE StartOccupancy \/ Cleanup
  BY <1>3 DEF StartOccupancy, Cleanup, Monotone!vars, hardware, software, history
<1>4. CASE UNCHANGED vars
  BY <1>4 DEF vars, Monotone!vars
<1> QED
  BY <1>1, <1>2, <1>3, <1>4, StepRefines DEF Next

\* The software-extended counter implements the counter of unbounded width that
\* keeps its promise until a read goes wrong.
THEOREM RefinesMonotone == Spec => ImplementsMonotone
  BY Invariance, InitRefines, NextRefines, PTL DEF Spec, ImplementsMonotone, Monotone!Spec

-----------------------------------------------------------------------------
\* What a thread is about to do takes no mutex, or one that is free, or it holds
\* the one it takes: the guards of Extend, ReadPrivate, ReadShared and
\* ReadOccupancy, and SelectEvent.
CanGoOn(t) ==
    \/ doing[t] \in Counters /\ got[t] # -1
    \/ doing[t] \in Private
    \/ msrLock = t /\ (doing[t] \in Shared \/ (t = Reader /\ doing[t] = Occupancy))
    \/ doing[t] \in Shared \cup {Occupancy} /\ got[t] = -1 /\ msrLock = None

\* A thread that cannot go on waits for the handle's mutex, and the one who has
\* that can; a mutex of a counter is held by a thread that is reading the counter.
NobodyIsStuck ==
    /\ \A t \in Threads : doing[t] # None =>
            CanGoOn(t) \/ (msrLock \in Threads \ {t} /\ CanGoOn(msrLock))
    /\ \A c \in Counters : counterLock[c] # None => doing[counterLock[c]] = c

\* A read, once it has its value, has taken all that its counter counted, or it
\* went wrong, and then its counter is marked.
ReadsTakeAll ==
    \A t \in Threads : got[t] = -1 /\ got'[t] # -1
                           => gap'[doing[t]] = 0 \/ doing[t] \in failed'

\* Only the reader reads the occupancy.
ReaderInv == \A t \in Threads : doing[t] = Occupancy => t = Reader

LEMMA NextReader == TypeOK /\ ReaderInv /\ [Next]_vars => ReaderInv'
<1> SUFFICES ASSUME TypeOK, ReaderInv, [Next]_vars PROVE ReaderInv'
  OBVIOUS
<1> USE NoneIsNobody DEF TypeOK, ReaderInv
<1>1. ASSUME NEW t \in Threads, NEW c \in Counters, LockCounter(t, c) \/ Extend(t, c)
      PROVE  ReaderInv'
  BY <1>1 DEF LockCounter, Extend
<1>2. ASSUME NEW t \in Threads, NEW e \in Shared \cup {Occupancy}, SelectEvent(t, e)
      PROVE  ReaderInv'
  BY <1>2 DEF SelectEvent
<1>3. ASSUME NEW t \in Threads, ReadShared(t) \/ ReadPrivate(t) \/ ReadOccupancy
      PROVE  ReaderInv'
  BY <1>3 DEF ReadShared, ReadPrivate, ReadOccupancy
<1>4. CASE StartOccupancy \/ Cleanup
  BY <1>4 DEF StartOccupancy, Cleanup
<1>5. ASSUME NEW c \in Counters, Count(c) \/ Reset(c) PROVE ReaderInv'
  BY <1>5 DEF Count, Reset, StartAgain
<1>6. CASE UNCHANGED vars
  BY <1>6 DEF vars
<1> QED
  BY <1>1, <1>2, <1>3, <1>4, <1>5, <1>6 DEF Next, Step, Counters

LEMMA StuckNever == Inv /\ ReaderInv => NobodyIsStuck
<1> SUFFICES ASSUME Inv, ReaderInv PROVE NobodyIsStuck
  OBVIOUS
<1> USE NoneIsNobody DEF Inv, TypeOK, HoldersInv
<1>1. ASSUME NEW t \in Threads, msrLock = t PROVE CanGoOn(t)
  BY <1>1 DEF CanGoOn, ReaderInv
<1>2. ASSUME NEW t \in Threads, doing[t] # None, msrLock = None PROVE CanGoOn(t)
  BY <1>2 DEF CanGoOn, Counters
<1>3. ASSUME NEW t \in Threads, doing[t] # None
      PROVE  CanGoOn(t) \/ (msrLock \in Threads \ {t} /\ CanGoOn(msrLock))
  BY <1>1, <1>2, <1>3
<1> QED
  BY <1>3 DEF NobodyIsStuck

LEMMA ReadsTake == Inv /\ [Next]_vars => ReadsTakeAll
<1> SUFFICES ASSUME Inv, [Next]_vars, NEW t \in Threads, got[t] = -1, got'[t] # -1
             PROVE  gap'[doing[t]] = 0 \/ doing[t] \in failed'
  BY DEF ReadsTakeAll
<1> USE NoneIsNobody DEF Inv, TypeOK
<1>1. ASSUME NEW u \in Threads, doing[u] \in Counters,
             Sampled(u, doing[u]) \/ ReadFails(u) \/ ReadOther(u)
      PROVE  gap'[doing[t]] = 0 \/ doing[t] \in failed'
  <2>1. u = t
    BY <1>1 DEF Sampled, ReadFails, ReadOther, Misread
  <2> QED
    BY <1>1, <2>1 DEF Sampled, ReadFails, ReadOther, Misread
<1>2. ASSUME NEW u \in Threads, ReadShared(u)
      PROVE  gap'[doing[t]] = 0 \/ doing[t] \in failed'
  <2>1. doing[u] \in Counters
    BY <1>2 DEF ReadShared, Counters
  <2>2. evtsel \in Shared => doing[u] = evtsel
    BY <1>2 DEF ReadShared, HoldersInv, Selects, Counters
  <2> QED
    BY <1>1, <1>2, <2>1, <2>2 DEF ReadShared
<1>7. ASSUME NEW u \in Threads, ReadPrivate(u)
      PROVE  gap'[doing[t]] = 0 \/ doing[t] \in failed'
  BY <1>1, <1>7 DEF ReadPrivate, Counters
<1>3. ASSUME NEW u \in Threads, NEW c \in Counters, LockCounter(u, c) \/ Extend(u, c)
      PROVE  FALSE
  BY <1>3 DEF LockCounter, Extend
<1>4. ASSUME NEW u \in Threads, NEW e \in Shared \cup {Occupancy}, SelectEvent(u, e)
      PROVE  FALSE
  BY <1>4 DEF SelectEvent
<1>5. ~StartOccupancy /\ ~ReadOccupancy /\ ~Cleanup /\ ~UNCHANGED vars
  BY DEF StartOccupancy, ReadOccupancy, Cleanup, vars
<1>6. \A c \in Counters : ~Count(c) /\ ~Reset(c)
  BY DEF Count, Reset, StartAgain
<1> QED
  BY <1>2, <1>3, <1>4, <1>5, <1>6, <1>7 DEF Next, Step, Counters

\* The two kinds of mutexes cannot block each other, for any number of counters
\* and threads (a watchdog takes its counter's mutex and then the handle's, the
\* reader of the occupancy only the latter), and a read that is let go on ends
\* with everything counted so far, or it went wrong (the safety half of
\* CountsAreRead).
THEOREM LocksCorrect == Spec => []NobodyIsStuck /\ [][ReadsTakeAll]_vars
<1>1. Init => ReaderInv
  BY NamesAssumption DEF Init, ReaderInv
<1>2. Inv => TypeOK
  BY DEF Inv
<1>3. Spec => []ReaderInv
  BY <1>1, <1>2, Invariance, NextReader, PTL DEF Spec
<1>4. Inv /\ [Next]_vars => [ReadsTakeAll]_vars
  BY ReadsTake
<1> QED
  BY <1>3, <1>4, Invariance, StuckNever, PTL DEF Spec
=============================================================================
