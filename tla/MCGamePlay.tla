----------------------------- MODULE MCGamePlay -----------------------------
(* A map of six cells for GamePlay.  Under the first seed the snakes start   *)
(* inside the border, under the second one of them starts on it.             *)
EXTENDS GamePlay

MCRand == << <<<<2, 3>>, <<2, 2>>, <<2, 1>>, <<1, 1>>, <<1, 2>>, <<1, 3>>>>,
             <<<<1, 1>>, <<2, 2>>, <<2, 1>>, <<1, 2>>, <<2, 3>>, <<1, 3>>>> >>

\* Bounds on what is followed together: faults with one command, and a second
\* game under one seed, without faults, with three commands and frames in all.
Followed ==
    /\ faults > 0 => Given <= 1
    /\ Len(threads) > 1 => /\ faults = 0 /\ Given + Len(log) <= 3
                           /\ \A c \in Clients : client[c].seed = 1
=============================================================================
