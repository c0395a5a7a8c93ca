------------------------------- MODULE MCTrees ------------------------------
(***************************************************************************)
(* TLC instance of Trees.  Some intervals are ordered as their data are,   *)
(* some are not; two of them end below 0, which the sentinel's max_high of *)
(* 0 exceeds.                                                              *)
(***************************************************************************)
EXTENDS Trees

MCData == {-3, 1, 2}
MCIntervals == {<<-3, -3, -2>>, <<-3, 2, 2>>, <<1, 1, 5>>, <<1, -3, 1>>, <<2, 1, 1>>, <<2, 2, 3>>}
MCOrdered == {<<d, d, d>> : d \in Data}
=============================================================================
