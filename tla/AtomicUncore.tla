---------------------------- MODULE AtomicUncore ----------------------------
(***************************************************************************)
(* What the callers of set_uncore_freq.sh count on: a call sets the uncore *)
(* frequency of both sockets in one step, to what this call and no other   *)
(* was given.  A frequency outside the allowed range is not refused: its   *)
(* socket gets the ratio 0.  Frequencies are in 0.1 GHz.                   *)
(***************************************************************************)
EXTENDS Integers

CONSTANT Freqs      \* the frequencies a caller may pass

VARIABLES
    pair,           \* the frequency of socket 0 and of socket 1
    pending         \* the arguments of the call that was made and not yet applied

vars == <<pair, pending>>

InRange(f) == f \in 8..24

\* The pair that a call with arguments p leaves, when both sockets are set at once.
Applied(p) == << IF InRange(p[1]) THEN p[1] ELSE 0, IF InRange(p[2]) THEN p[2] ELSE 0 >>

Init ==
    /\ pair \in (0..127) \X (0..127)
    /\ pending = {}

Call(p) ==
    /\ pending = {}
    /\ pending' = {p}
    /\ UNCHANGED pair

Set(p) ==
    /\ p \in pending
    /\ pair' = Applied(p)
    /\ pending' = {}

Next == \E p \in Freqs \X Freqs : Call(p) \/ Set(p)

Spec == Init /\ [][Next]_vars
=============================================================================
