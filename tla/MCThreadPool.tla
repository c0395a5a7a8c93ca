---------------------------- MODULE MCThreadPool ----------------------------
(***************************************************************************)
(* TLC instance of ThreadPool and of the queue by itself: a pool of two    *)
(* threads and its owner; two tasks, so that one can wait for the other.   *)
(***************************************************************************)
EXTENDS ThreadPool

CONSTANTS t1, t2, t3

MCThreads == {t1, t2, t3}
MCWorkers == {t2, t3}
MCValues  == 1..(MaxNodes - 1)
AllOps    == {"try_pop", "wait_and_pop", "empty", "push"}
=============================================================================
