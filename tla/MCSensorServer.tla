--------------------------- MODULE MCSensorServer ---------------------------
(***************************************************************************)
(* A pool of three threads and two connections for TLC.  The threads are   *)
(* alike, so two can be named by what they take: w1 takes the fetcher, and *)
(* the client of differences, if another takes it, is taken by w2.         *)
(***************************************************************************)
EXTENDS SensorServer, TLC

CONSTANTS w1, w2, c1, c2
OneOfEach == c1 :> {"seconds"} @@ c2 :> {"page", "current"}

ByTheirNames ==
    \A w \in Workers :
        /\ doing[w] = Fetcher => w = w1
        /\ doing[w] = Item("connection", c1) => w \in {w1, w2}
NamedSpec == Init /\ [][Next /\ ByTheirNames']_vars /\ Fairness
=============================================================================
