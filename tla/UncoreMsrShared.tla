-------------------------- MODULE UncoreMsrShared ---------------------------
(***************************************************************************)
(* UncoreMsr with several callers and a history variable: which invocation *)
(* ran without another caller writing a socket meanwhile.  It says what a  *)
(* controller can still count on when it is not alone on the machine.      *)
(***************************************************************************)
EXTENDS UncoreMsr

VARIABLE undisturbed    \* since the caller's script started nobody else wrote, nobody
                        \* terminated it and its first wrmsr did not fail

sharedVars == <<vars, undisturbed>>

SharedInit == Init /\ undisturbed = [c \in Callers |-> FALSE]

SharedCall(c, p) ==
    /\ Call(c, p)
    /\ undisturbed' = [undisturbed EXCEPT ![c] = TRUE]

SharedWrite(c) ==
    /\ WriteCpu0(c) \/ WriteCpu1(c)
    /\ undisturbed' = [d \in Callers |-> d = c /\ undisturbed[c]]

\* A script that fails in its second wrmsr has still written socket 0.
SharedFail(c) ==
    \/ FailCpu0(c) /\ undisturbed' = [undisturbed EXCEPT ![c] = FALSE]
    \/ FailCpu1(c) /\ UNCHANGED undisturbed

SharedTerminate(c) ==
    /\ Terminate(c)
    /\ undisturbed' = [undisturbed EXCEPT ![c] = FALSE]

SharedNext ==
    \E c \in Callers :
        \/ \E p \in Freqs \X Freqs : SharedCall(c, p)
        \/ SharedWrite(c)
        \/ SharedFail(c)
        \/ SharedTerminate(c)

SharedSpec == SharedInit /\ [][SharedNext]_sharedVars

SharedTypeOK == TypeOK /\ undisturbed \in [Callers -> BOOLEAN]

\* An undisturbed invocation owns socket 0 from its first write on, even if its
\* second fails, and one that returned well left exactly its request in both
\* sockets, in range or not, whatever the callers before it, running, failed or
\* terminated, had left half done.
UndisturbedLands ==
    \A c \in Callers : undisturbed[c] =>
        /\ pc[c] # "cpu0" => msr[1] = Written(arg[c][1])
        /\ pc[c] = "idle" => msr[2] = Written(arg[c][2])
=============================================================================
