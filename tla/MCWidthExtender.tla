-------------------------- MODULE MCWidthExtender ---------------------------
(***************************************************************************)
(* An instance of WidthExtender for TLC: a bandwidth counter of a core and *)
(* one counter with a register of its own.  Both registers are 0 when the  *)
(* extenders are made: what a construction at another value reads without  *)
(* an error is a state that counting and reading lead to from here.        *)
(***************************************************************************)
EXTENDS WidthExtender

FromZeroInit == Init /\ raw = [c \in Counters |-> 0]
FromZeroSpec == FromZeroInit /\ [][Next]_vars /\ Fairness
=============================================================================
