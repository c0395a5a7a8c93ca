-------------------------- MODULE ThreadsafeQueue ---------------------------
(***************************************************************************)
(* threadsafe_queue (src/utility.hpp): a linked list with one mutex for    *)
(* its head and one for its tail.  The node at the tail is a dummy without *)
(* data, "so that the head and the tail are different nodes and no one     *)
(* needs both mutexes" (the comment of the class).                         *)
(*                                                                         *)
(* A thread's call is a sequence of steps, one per access to what the      *)
(* threads share.  Releasing a mutex is part of the last step made under   *)
(* it: nothing the thread does in between is shared.                       *)
(***************************************************************************)
EXTENDS Integers, Sequences

CONSTANTS Threads,   \* threads that share the queue
          NoThread,  \* a mutex is free
          Values,    \* what is put into the queue
          Nothing,   \* a node without data; the answer of a pop that failed
          Ops,       \* the calls made: try_pop, wait_and_pop, empty, push
          MaxNodes   \* BOUND: nodes allocated, one for the dummy

ASSUME QueueAssumption ==
    /\ NoThread \notin Threads
    /\ Nothing \notin Values
    /\ Ops \subseteq {"try_pop", "wait_and_pop", "empty", "push"}
    /\ MaxNodes \in Nat \ {0}

VARIABLES node,      \* the nodes allocated so far, 1..Len(node)
          head, tail,
          headMutex, tailMutex,
          waiters,   \* threads asleep on data_cond
          call,      \* per thread: the call it is in
          got,       \* per thread: what its last pop returned
          chain      \* the nodes from head to tail (history)

vars == <<node, head, tail, headMutex, tailMutex, waiters, call, got, chain>>

Null == 0
NewNode == [data |-> Nothing, next |-> Null]

\* new is the node a push has allocated, value what it pushes
Idle == [op |-> "none", pc |-> "idle", new |-> Null, value |-> Nothing]

Goto(t, pc) == call' = [call EXCEPT ![t] = [call[t] EXCEPT !.pc = pc]]
Return(t)   == call' = [call EXCEPT ![t] = Idle]

-----------------------------------------------------------------------------
\* push allocates the data and the next dummy before it takes a mutex
StartPush(t) ==
    /\ "push" \in Ops
    /\ call[t].pc = "idle"
    /\ Len(node) < MaxNodes
    /\ node' = Append(node, NewNode)
    /\ \E v \in Values :
          call' = [call EXCEPT ![t] = [op |-> "push", pc |-> "fill",
                                       new |-> Len(node) + 1, value |-> v]]
    /\ UNCHANGED <<head, tail, headMutex, tailMutex, waiters, got, chain>>

PushFill(t) ==
    /\ call[t].pc = "fill"
    /\ tailMutex = NoThread
    /\ tailMutex' = t
    /\ node' = [node EXCEPT ![tail] = [data |-> call[t].value, next |-> node[tail].next]]
    /\ Goto(t, "link")
    /\ UNCHANGED <<head, tail, headMutex, waiters, got, chain>>

PushLink(t) ==
    /\ call[t].pc = "link"
    /\ node' = [node EXCEPT ![tail] = [data |-> node[tail].data, next |-> call[t].new]]
    /\ Goto(t, "move")
    /\ UNCHANGED <<head, tail, headMutex, tailMutex, waiters, got, chain>>

\* the new dummy becomes the tail, the mutex is released
PushMove(t) ==
    /\ call[t].pc = "move"
    /\ tail' = call[t].new
    /\ tailMutex' = NoThread
    /\ chain' = Append(chain, call[t].new)
    /\ Goto(t, "notify")
    /\ UNCHANGED <<node, head, headMutex, waiters, got>>

\* notify_one, without head_mutex: whoever sleeps at this instant may be woken
Notify(t) ==
    /\ call[t].pc = "notify"
    /\ \/ /\ waiters = {}
          /\ Return(t)
          /\ UNCHANGED waiters
       \/ \E w \in waiters :
             /\ waiters' = waiters \ {w}
             /\ call' = [call EXCEPT ![t] = Idle, ![w] = [call[w] EXCEPT !.pc = "lock"]]
    /\ UNCHANGED <<node, head, tail, headMutex, tailMutex, got, chain>>

-----------------------------------------------------------------------------
StartPop(t, op) ==
    /\ op \in Ops
    /\ call[t].pc = "idle"
    /\ call' = [call EXCEPT ![t] = [Idle EXCEPT !.op = op, !.pc = "lock"]]
    /\ UNCHANGED <<node, head, tail, headMutex, tailMutex, waiters, got, chain>>

\* takes the head mutex without waiting for it
BadLockHead(t) ==
    /\ call[t].pc = "lock"
    /\ headMutex' = t
    /\ Goto(t, "look")
    /\ UNCHANGED <<node, head, tail, tailMutex, waiters, got, chain>>

LockHead(t) ==
    /\ call[t].pc = "lock"
    /\ headMutex = NoThread
    /\ headMutex' = t
    /\ Goto(t, "look")
    /\ UNCHANGED <<node, head, tail, tailMutex, waiters, got, chain>>

LookAt(t, isEmpty) ==
    /\ call[t].pc = "look"
    /\ \/ /\ call[t].op = "empty"
          /\ headMutex' = NoThread
          /\ Return(t)
          /\ UNCHANGED got
       \/ /\ call[t].op = "try_pop" /\ isEmpty
          /\ headMutex' = NoThread
          /\ Return(t)
          /\ got' = [got EXCEPT ![t] = Nothing]
       \/ /\ call[t].op = "wait_and_pop" /\ isEmpty
          /\ Goto(t, "sleep")
          /\ UNCHANGED <<headMutex, got>>
       \/ /\ call[t].op # "empty" /\ ~isEmpty
          /\ Goto(t, "pop")
          /\ UNCHANGED <<headMutex, got>>
    /\ UNCHANGED <<node, head, tail, tailMutex, waiters, chain>>

\* looks for data at the head and spares the tail mutex
BadLook(t) == LookAt(t, node[head].data = Nothing)

\* get_tail takes the tail mutex for as long as it reads the tail
Look(t) == tailMutex = NoThread /\ LookAt(t, head = tail)

\* data_cond.wait releases head_mutex as it goes to sleep
Sleep(t) ==
    /\ call[t].pc = "sleep"
    /\ waiters' = waiters \cup {t}
    /\ headMutex' = NoThread
    /\ Goto(t, "asleep")
    /\ UNCHANGED <<node, head, tail, tailMutex, got, chain>>

\* a condition variable may wake a thread for no reason
WakeSpuriously(t) ==
    /\ t \in waiters
    /\ waiters' = waiters \ {t}
    /\ Goto(t, "lock")
    /\ UNCHANGED <<node, head, tail, headMutex, tailMutex, got, chain>>

\* pops and keeps the mutex
BadPopHead(t) ==
    /\ call[t].pc = "pop"
    /\ got' = [got EXCEPT ![t] = node[head].data]
    /\ head' = node[head].next
    /\ chain' = Tail(chain)
    /\ Return(t)
    /\ UNCHANGED <<node, tail, headMutex, tailMutex, waiters>>

PopHead(t) ==
    /\ call[t].pc = "pop"
    /\ got' = [got EXCEPT ![t] = node[head].data]
    /\ head' = node[head].next
    /\ headMutex' = NoThread
    /\ chain' = Tail(chain)
    /\ Return(t)
    /\ UNCHANGED <<node, tail, tailMutex, waiters>>

-----------------------------------------------------------------------------
Init ==
    /\ node = <<NewNode>>
    /\ head = 1 /\ tail = 1
    /\ headMutex = NoThread /\ tailMutex = NoThread
    /\ waiters = {}
    /\ call = [t \in Threads |-> Idle]
    /\ got = [t \in Threads |-> Nothing]
    /\ chain = <<1>>

\* what a thread does once it has begun a call
Continue(t) ==
    \/ PushFill(t) \/ PushLink(t) \/ PushMove(t) \/ Notify(t)
    \/ LockHead(t) \/ Look(t) \/ Sleep(t) \/ PopHead(t)

Begin(t) ==
    \/ StartPush(t)
    \/ \E op \in {"try_pop", "wait_and_pop", "empty"} : StartPop(t, op)

Next == \E t \in Threads : Begin(t) \/ Continue(t) \/ WakeSpuriously(t)

\* a thread finishes the call it has begun; nobody must begin one
Fairness == \A t \in Threads : WF_vars(Continue(t))

Spec == Init /\ [][Next]_vars
FairSpec == Spec /\ Fairness

-----------------------------------------------------------------------------
Pcs == {"idle", "fill", "link", "move", "notify", "lock", "look", "pop", "sleep",
        "asleep"}
Nodes == 1..Len(node)
Calls == [op : {"none", "try_pop", "wait_and_pop", "empty", "push"}, pc : Pcs,
          new : Nat, value : Values \cup {Nothing}]

TypeOK ==
    /\ node \in Seq([data : Values \cup {Nothing}, next : Nat])
    /\ head \in Nodes /\ tail \in Nodes
    /\ headMutex \in Threads \cup {NoThread}
    /\ tailMutex \in Threads \cup {NoThread}
    /\ waiters \subseteq Threads
    /\ call \in [Threads -> Calls]
    /\ got \in [Threads -> Values \cup {Nothing}]
    /\ chain \in Seq(Nodes) /\ chain # <<>>

\* "The dummy keeps the accesses to head and tail apart" ("使头尾两个节点的访问分开"):
\* the node a pop reads and frees under head_mutex is never the one a push
\* writes under tail_mutex, and it has its data and its successor.
HeadTailApart ==
    \A t \in Threads : call[t].pc = "pop" =>
        head # tail /\ node[head].data \in Values /\ node[head].next \in Nodes

\* The queue as its users see it: the data of the nodes before the dummy.
\* It changes when a push moves the tail and when a pop moves the head.
Contents == [i \in 1..(Len(chain) - 1) |-> node[chain[i]].data]

\* With two mutexes, each push and each pop still acts at one instant: nothing
\* is lost, repeated or reordered, and try_pop fails only on an empty queue.
F == INSTANCE Fifo WITH queue <- Contents
IsFifo == F!Behaviour

\* Nobody keeps a mutex for good: the pops take the tail mutex while they hold
\* the head mutex, the pushes never the other way round.
MutexesReleased ==
    /\ headMutex # NoThread ~> headMutex = NoThread
    /\ tailMutex # NoThread ~> tailMutex = NoThread

=============================================================================
