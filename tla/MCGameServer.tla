---------------------------- MODULE MCGameServer ----------------------------
(***************************************************************************)
(* TLC instance of GameServer: three players, two rooms, two names.  Three *)
(* players are one more than a room takes, two rooms are what it takes to  *)
(* be in a second room; ids are integers because the maps order them.      *)
(***************************************************************************)
EXTENDS GameServer

MCCids  == {1, 2, 3}
MCGids  == {1, 2}
MCNames == {"a", "b"}

=============================================================================
