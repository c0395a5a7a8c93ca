---------------------------- MODULE MCSnowFlake ----------------------------
(***************************************************************************)
(* TLC instances of SnowFlake: seconds of three milliseconds, timestamps   *)
(* of two or four serials, so that the timestamp falls back while serials  *)
(* are left, and runs out of them.                                         *)
(***************************************************************************)
EXTENDS SnowFlake

CONSTANTS t1, t2

TwoThreads == {t1, t2}

=============================================================================
