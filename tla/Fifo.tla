-------------------------------- MODULE Fifo --------------------------------
(***************************************************************************)
(* What threadsafe_queue (src/utility.hpp) promises: each call of push and *)
(* of the pops acts at one instant on one sequence.                        *)
(***************************************************************************)
EXTENDS Sequences

CONSTANTS Threads, Values, Nothing

VARIABLES queue,   \* the values in the queue
          got      \* per thread: what its last pop returned

Put(v) ==
    /\ queue' = Append(queue, v)
    /\ UNCHANGED got

Take(t) ==
    /\ queue # <<>>
    /\ got' = [got EXCEPT ![t] = Head(queue)]
    /\ queue' = Tail(queue)

\* try_pop on an empty queue
Miss(t) ==
    /\ queue = <<>>
    /\ got' = [got EXCEPT ![t] = Nothing]
    /\ UNCHANGED queue

Start == queue = <<>> /\ got = [t \in Threads |-> Nothing]

Step ==
    \/ \E v \in Values : Put(v)
    \/ \E t \in Threads : Take(t) \/ Miss(t)

Behaviour == Start /\ [][Step]_<<queue, got>>

=============================================================================
