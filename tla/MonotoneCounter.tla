-------------------------- MODULE MonotoneCounter ---------------------------
(***************************************************************************)
(* What a reader of an extended counter is promised: each counter has a    *)
(* count that only grows, and a reported value that never goes back and    *)
(* never runs ahead of the count.  A reset starts both again.  A counter   *)
(* can break, and promises nothing until a reset finds it whole.           *)
(***************************************************************************)
EXTENDS Integers

CONSTANTS Counters, Width

VARIABLES count, reported, broken

vars == <<count, reported, broken>>

Init == /\ count \in [Counters -> 0 .. Width - 1]
        /\ reported \in [Counters -> Nat]
        /\ broken = {c \in Counters : reported[c] # count[c]}

Grow(c) == /\ count' = [count EXCEPT ![c] = @ + 1]
           /\ UNCHANGED <<reported, broken>>

\* A whole counter reports no more than the count; a broken one anything.
Report(c) == /\ reported'[c] \in Nat
             /\ c \in broken \/ reported'[c] \in reported[c] .. count[c]
             /\ reported' = [reported EXCEPT ![c] = reported'[c]]
             /\ UNCHANGED <<count, broken>>

Break(c) == /\ broken' = broken \cup {c}
            /\ UNCHANGED <<count, reported>>

Restart(c) == \E v \in 0 .. Width - 1, w \in 0 .. Width - 1 :
                /\ count' = [count EXCEPT ![c] = v]
                /\ reported' = [reported EXCEPT ![c] = w]
                /\ \/ w = v /\ broken' = broken \ {c}
                   \/ broken' = broken \cup {c}

Next == \E c \in Counters : Grow(c) \/ Report(c) \/ Break(c) \/ Restart(c)

Spec == Init /\ [][Next]_vars
=============================================================================
