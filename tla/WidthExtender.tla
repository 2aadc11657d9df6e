--------------------------- MODULE WidthExtender ----------------------------
(***************************************************************************)
(* CounterWidthExtender of the PCM library: a narrow hardware counter is   *)
(* extended in software.  A reader and one watchdog thread per counter add *)
(* up the differences between successive raw values under the counter's    *)
(* mutex (internal_read); the watchdog reads now and then so that no more  *)
(* than one wrap lies between two reads.                                   *)
(*                                                                         *)
(* The memory-bandwidth counters of one core are not registers of their    *)
(* own: MBL, MBT and the L3 occupancy are read by writing an event number  *)
(* into IA32_QM_EVTSEL and reading IA32_QM_CTR, so three threads share one *)
(* pair of registers and the mutex of the core's SafeMsrHandle.  The       *)
(* cleanup of the process writes IA32_QM_EVTSEL without that mutex while   *)
(* the watchdogs still run (cleanupRDT).                                   *)
(*                                                                         *)
(* A read can go wrong: IA32_QM_CTR answers with an error bit, or          *)
(* msr->read fails and the value stays 0.  internal_read takes either for  *)
(* a raw value.                                                            *)
(*                                                                         *)
(* Bounds: MaxTotal counts per counter, MaxFailures reads that go wrong    *)
(* (of a construction all that do).  Left out: the 64-bit wrap of          *)
(* extended_value (a sum with an error bit is exact in the integers as it  *)
(* is modulo 2^64), and other processes that use the same registers (the   *)
(* mutex does not reach them).                                             *)
(***************************************************************************)
EXTENDS Integers

CONSTANTS
    Shared,     \* counters behind IA32_QM_EVTSEL / IA32_QM_CTR (MBL, MBT)
    Private,    \* counters with an MSR of their own
    Occupancy,  \* the L3 occupancy event: selected and read, never extended
    Reader,     \* the thread of the core that reads for getAllCounterStates
    None,       \* no thread, no event
    NoEvent,    \* event 0, with which cleanupRDT leaves IA32_QM_EVTSEL
    Width,      \* 2 ^ counter_width
    Errors,     \* values of IA32_QM_CTR with bit 63 (Error) or 62 (Unavailable)
    MaxTotal,   \* bound on the counts
    MaxFailures \* bound on the reads that go wrong

Counters == Shared \cup Private

ASSUME WidthAssumption == /\ Width \in Nat \ {0}
                          /\ MaxTotal \in Nat /\ MaxFailures \in Nat
ASSUME ErrorsAssumption == \A e \in Errors : e \in Nat /\ e >= Width
ASSUME NamesAssumption == /\ Shared \cap Private = {}
                          /\ Occupancy \notin Counters
                          /\ Reader \notin Counters
                          /\ None \notin Counters \cup {Reader, Occupancy}
                          /\ NoEvent \notin Counters \cup {Occupancy}

\* The watchdog of a counter is named after the counter.
Threads == Counters \cup {Reader}

\* What a read of a counter returns, and what one that went wrong may return.
Values == 0 .. Width - 1 \cup Errors
Wrong(c) == IF c \in Shared THEN {0} \cup Errors ELSE {0}

VARIABLES
    raw,            \* the hardware counters
    evtsel,         \* the event in IA32_QM_EVTSEL
    cleaned,        \* cleanupRDT has been at the core: IA32_QM_EVTSEL has RMID 0
    msrLock,        \* holder of the SafeMsrHandle's mutex
    counterLock,    \* holder of each CounterMutex
    extended_value, last_raw_value,
    doing,          \* what each thread reads, None between reads
    got,            \* the raw value a thread has read but not yet added, -1 before
    total,          \* (history) what a counter of unbounded width would show
    gap,            \* (history) counts since the raw value was last read
    lost,           \* (history) a whole wrap went by between two reads
    failed,         \* (history) counters a read of which went wrong
    failures        \* how many reads went wrong, up to MaxFailures

vars == <<raw, evtsel, cleaned, msrLock, counterLock, extended_value, last_raw_value,
          doing, got, total, gap, lost, failed, failures>>
hardware == <<raw, total, cleaned>>
history == <<gap, lost, failed, failures>>
software == <<extended_value, last_raw_value>>

TypeOK ==
    /\ raw \in [Counters -> 0 .. Width - 1]
    /\ evtsel \in Shared \cup {Occupancy, NoEvent}
    /\ cleaned \in BOOLEAN
    /\ msrLock \in Threads \cup {None}
    /\ counterLock \in [Counters -> Threads \cup {None}]
    /\ extended_value \in [Counters -> Nat]
    /\ last_raw_value \in [Counters -> Values]
    /\ doing \in [Threads -> Counters \cup {Occupancy, None}]
    /\ got \in [Threads -> {-1} \cup Values]
    /\ total \in [Counters -> Nat]
    /\ gap \in [Counters -> Nat]
    /\ lost \in [Counters -> BOOLEAN]
    /\ failed \subseteq Counters
    /\ failures \in Nat

\* The constructor's read (extended_value = last_raw_value) may go wrong too.
Init ==
    /\ raw \in [Counters -> 0 .. Width - 1]
    /\ evtsel = Occupancy
    /\ cleaned = FALSE
    /\ msrLock = None
    /\ counterLock = [c \in Counters |-> None]
    /\ last_raw_value \in [Counters -> Values]
    /\ \A c \in Counters : last_raw_value[c] \in {raw[c]} \cup Wrong(c)
    /\ extended_value = last_raw_value
    /\ doing = [t \in Threads |-> None]
    /\ got = [t \in Threads |-> -1]
    /\ total = raw
    /\ gap = [c \in Counters |-> 0]
    /\ lost = [c \in Counters |-> FALSE]
    /\ failed = {c \in Counters : last_raw_value[c] # raw[c]}
    /\ failures = IF failed = {} THEN 0 ELSE MaxFailures

\* The hardware counts one event; the register wraps.
Count(c) ==
    /\ total[c] < MaxTotal
    /\ raw' = [raw EXCEPT ![c] = IF @ + 1 = Width THEN 0 ELSE @ + 1]
    /\ total' = [total EXCEPT ![c] = @ + 1]
    /\ gap' = [gap EXCEPT ![c] = @ + 1]
    /\ UNCHANGED <<evtsel, cleaned, msrLock, counterLock, software, doing, got,
                   lost, failed, failures>>

\* The loop body of cleanupRDT for this core: event 0, RMID 0, and no msr->lock().
Cleanup ==
    /\ evtsel' = NoEvent
    /\ cleaned' = TRUE
    /\ UNCHANGED <<raw, total, msrLock, counterLock, software, doing, got, history>>

-----------------------------------------------------------------------------
\* internal_read of counter c, by the reader or by the counter's watchdog.

LockCounter(t, c) ==
    /\ doing[t] = None /\ t \in {Reader, c}
    /\ counterLock[c] = None
    /\ counterLock' = [counterLock EXCEPT ![c] = t]
    /\ doing' = [doing EXCEPT ![t] = c]
    /\ UNCHANGED <<hardware, evtsel, msrLock, software, got, history>>

\* Mutant of SelectEvent: the event is written before the handle's mutex is had.
SelectEventUnlocked(t, e) ==
    /\ doing[t] = e /\ got[t] = -1
    /\ msrLock' = IF msrLock = None THEN t ELSE msrLock
    /\ evtsel' = e
    /\ UNCHANGED <<hardware, counterLock, software, doing, got, history>>

\* MBLCounter, MBTCounter and the occupancy read: lock, write the event.
SelectEvent(t, e) ==
    /\ doing[t] = e /\ got[t] = -1
    /\ msrLock = None
    /\ msrLock' = t
    /\ evtsel' = e
    /\ UNCHANGED <<hardware, counterLock, software, doing, got, history>>

Sampled(t, c) ==
    /\ got' = [got EXCEPT ![t] = raw[c]]
    /\ gap' = [gap EXCEPT ![doing[t]] = 0]
    /\ lost' = [lost EXCEPT ![doing[t]] = @ \/ gap[doing[t]] >= Width]
    /\ UNCHANGED <<failed, failures>>

\* A read that returns something else than the counter.
Misread(t, v) ==
    /\ got' = [got EXCEPT ![t] = v]
    /\ failed' = failed \cup {doing[t]}
    /\ UNCHANGED <<gap, lost>>

\* IA32_QM_CTR has an error bit set, or msr->read fails and the value stays 0:
\* neither the raw counters nor internal_read look.
ReadFails(t) ==
    /\ failures < MaxFailures
    /\ failures' = failures + 1
    /\ \E v \in Wrong(doing[t]) : Misread(t, v)

\* With RMID 0, or an event that is not a bandwidth, any value is read (and the
\* last one again when the bound is reached).
ReadOther(t) ==
    IF failures < MaxFailures
    THEN failures' = failures + 1 /\ \E v \in Values : Misread(t, v)
    ELSE UNCHANGED failures /\ Misread(t, last_raw_value[doing[t]])

\* ... then read IA32_QM_CTR, whatever event is selected by now, and unlock.
ReadShared(t) ==
    /\ doing[t] \in Shared /\ got[t] = -1
    /\ msrLock = t
    /\ \/ evtsel \in Shared /\ ~cleaned /\ Sampled(t, evtsel)
       \/ (evtsel \notin Shared \/ cleaned) /\ ReadOther(t)
       \/ ReadFails(t)
    /\ msrLock' = None
    /\ UNCHANGED <<hardware, evtsel, counterLock, software, doing>>

\* MsrHandleCounter: one read, no lock needed.
ReadPrivate(t) ==
    /\ doing[t] \in Private /\ got[t] = -1
    /\ Sampled(t, doing[t]) \/ ReadFails(t)
    /\ UNCHANGED <<hardware, evtsel, msrLock, counterLock, software, doing>>

\* Mutant of Difference: a wrap is not noticed.
DifferenceUnwrapped(new, last) == IF new < last THEN new ELSE new - last

\* The counts between two raw values, at most one wrap apart.
Difference(new, last) == IF new < last THEN (Width - last) + new ELSE new - last

\* Mutant of Extend: the last value is kept.
ExtendKeepsLast(t, c) ==
    /\ doing[t] = c /\ got[t] # -1
    /\ extended_value' = [extended_value EXCEPT ![c] = @ + Difference(got[t], last_raw_value[c])]
    /\ counterLock' = [counterLock EXCEPT ![c] = None]
    /\ doing' = [doing EXCEPT ![t] = None]
    /\ got' = [got EXCEPT ![t] = -1]
    /\ UNCHANGED <<hardware, evtsel, msrLock, last_raw_value, history>>

\* Mutant of Extend: the mutex is not released.
ExtendKeepsLock(t, c) ==
    /\ doing[t] = c /\ got[t] # -1
    /\ extended_value' = [extended_value EXCEPT ![c] = @ + Difference(got[t], last_raw_value[c])]
    /\ last_raw_value' = [last_raw_value EXCEPT ![c] = got[t]]
    /\ doing' = [doing EXCEPT ![t] = None]
    /\ got' = [got EXCEPT ![t] = -1]
    /\ UNCHANGED <<hardware, evtsel, msrLock, counterLock, history>>

Extend(t, c) ==
    /\ doing[t] = c /\ got[t] # -1
    /\ extended_value' = [extended_value EXCEPT ![c] = @ + Difference(got[t], last_raw_value[c])]
    /\ last_raw_value' = [last_raw_value EXCEPT ![c] = got[t]]
    /\ counterLock' = [counterLock EXCEPT ![c] = None]
    /\ doing' = [doing EXCEPT ![t] = None]
    /\ got' = [got EXCEPT ![t] = -1]
    /\ UNCHANGED <<hardware, evtsel, msrLock, history>>

-----------------------------------------------------------------------------
\* BasicCounterState::readAndAggregate reads the occupancy under the same mutex.

StartOccupancy ==
    /\ doing[Reader] = None
    /\ doing' = [doing EXCEPT ![Reader] = Occupancy]
    /\ UNCHANGED <<hardware, evtsel, msrLock, counterLock, software, got, history>>

ReadOccupancy ==
    /\ doing[Reader] = Occupancy
    /\ msrLock = Reader
    /\ msrLock' = None
    /\ doing' = [doing EXCEPT ![Reader] = None]
    /\ UNCHANGED <<hardware, evtsel, counterLock, software, got, history>>

\* CounterWidthExtenderRegister = 0: both values start again from the raw value,
\* or from 0 if it cannot be read.  The counters so written are registers of
\* their own.
StartAgain(c, v) ==
    /\ doing[Reader] = None
    /\ counterLock[c] = None
    /\ extended_value' = [extended_value EXCEPT ![c] = v]
    /\ last_raw_value' = [last_raw_value EXCEPT ![c] = v]
    /\ total' = [total EXCEPT ![c] = raw[c]]
    /\ gap' = [gap EXCEPT ![c] = 0]
    /\ lost' = [lost EXCEPT ![c] = FALSE]
    /\ UNCHANGED <<raw, evtsel, cleaned, msrLock, counterLock, doing, got>>

Reset(c) ==
    \/ /\ StartAgain(c, raw[c])
       /\ failed' = failed \ {c}
       /\ UNCHANGED failures
    \/ /\ failures < MaxFailures
       /\ failures' = failures + 1
       /\ StartAgain(c, 0)
       /\ failed' = failed \cup {c}

Step(t) ==
    \/ \E c \in Counters : LockCounter(t, c) \/ Extend(t, c)
    \/ \E e \in Shared \cup {Occupancy} : SelectEvent(t, e)
    \/ ReadShared(t)
    \/ ReadPrivate(t)
    \/ t = Reader /\ ReadOccupancy

Next ==
    \/ \E c \in Counters : Count(c)
    \/ \E t \in Threads : Step(t)
    \/ StartOccupancy
    \/ Cleanup
    \/ \E c \in Private : Reset(c)

\* Every holder goes on to unlock, and both mutexes are free most of the time:
\* a watchdog sleeps a second or more between two reads, and so does the caller
\* of getAllCounterStates.  A watchdog that asks again and again gets its turn.
\* Reads that go wrong are bounded, so they do not go wrong for ever.
Fairness == \A t \in Threads : SF_vars(Step(t))

Spec == Init /\ [][Next]_vars
FairSpec == Spec /\ Fairness

-----------------------------------------------------------------------------
\* Whoever holds the handle's mutex has its own event selected: what it reads
\* from IA32_QM_CTR is the counter it asked for, never the occupancy or the
\* other bandwidth (width_extender.h 72-84 and 95-107, cpucounters.cpp 5169),
\* unless the process' cleanup, which takes no mutex, came between the write and
\* the read: then it reads event 0 (cpucounters.cpp 4751).
Selects(t) == evtsel = doing[t] \/ (cleaned /\ evtsel = NoEvent)
SelectedIsMine == msrLock # None => Selects(msrLock)

\* The value the next Extend brings the counter to: what is read already, added.
Base(c)    == IF counterLock[c] # None /\ got[counterLock[c]] # -1
              THEN got[counterLock[c]] ELSE last_raw_value[c]
Pending(c) == extended_value[c] + Difference(Base(c), last_raw_value[c])
Wrap(x)    == IF x >= Width THEN x - Width ELSE x

\* The inductive invariant: who holds what; that only whole widths are added to
\* the last raw value; and, for every counter no read of which went wrong, how
\* its raw value, what was read of it and what it counted since belong together.
HoldersInv ==
    /\ \A t \in Threads : msrLock = t => /\ got[t] = -1
                                        /\ doing[t] \in Shared \cup {Occupancy}
                                        /\ Selects(t)
    /\ \A c \in Counters : counterLock[c] # None =>
          counterLock[c] \in {Reader, c} /\ doing[counterLock[c]] = c
    /\ \A t \in Threads : doing[t] \in Counters => counterLock[doing[t]] = t
    /\ \A t \in Threads : got[t] # -1 => doing[t] \in Counters
WholeWidths(c) == \E k \in 0 .. extended_value[c] :
                     extended_value[c] = last_raw_value[c] + k * Width
ValueInv(c) ==
    /\ last_raw_value[c] < Width /\ Base(c) < Width
    /\ gap[c] < Width => raw[c] = Wrap(Base(c) + gap[c])
    /\ Pending(c) + gap[c] <= total[c]
    /\ lost[c] \/ Pending(c) + gap[c] = total[c]
Inv == /\ TypeOK /\ HoldersInv
       /\ \A c \in Counters : WholeWidths(c) /\ (c \notin failed => ValueInv(c))

\* As long as no whole wrap went by between two reads and no read went wrong,
\* the extended value is exactly the count at the last read, whichever thread
\* read: no wrap is lost, none is counted twice.  A read that goes wrong makes a
\* wrap that never was, but costs whole widths only, whatever it returned: the
\* value stays right in its low bits (internal_read, width_extender.h 128-149).
ExtendedIsExact ==
    \A c \in Counters :
        /\ counterLock[c] = None /\ ~lost[c] /\ c \notin failed
              => extended_value[c] = total[c] - gap[c]
        /\ WholeWidths(c)

\* The extended counter promises what a counter of unbounded width would: until
\* a read of it goes wrong, it never goes back and never runs ahead of the count,
\* however late the watchdog, and a reset makes up for it (internal_read, reset).
Monotone == INSTANCE MonotoneCounter
               WITH count <- total, reported <- extended_value, broken <- failed
ImplementsMonotone == Monotone!Spec

\* A watchdog whose counter is busy gets its turn, and a read that went wrong is
\* made up for by the next: what was counted is read, unless cleanupRDT took the
\* counter's RMID away.
CountsAreRead ==
    \A c \in Counters : gap[c] > 0 ~> gap[c] = 0 \/ (c \in Shared /\ cleaned)
=============================================================================
