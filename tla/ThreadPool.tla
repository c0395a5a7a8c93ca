----------------------------- MODULE ThreadPool -----------------------------
(***************************************************************************)
(* thread_pool (src/utility.hpp) on the steps of its work_queue.  Workers  *)
(* pop and run tasks until `done'; the pool's owner submits tasks, waits   *)
(* for their futures and destroys the pool.  A task may itself submit      *)
(* tasks and wait for them while it runs others, as sorter::do_sort does.  *)
(*                                                                         *)
(* `pool' tells which of its uses the queue is in: by itself ("none"), or  *)
(* as the work_queue of a pool.  The tasks of a pool are the numbers of    *)
(* the nodes pushed for them.                                              *)
(***************************************************************************)
EXTENDS ThreadsafeQueue, SequencesExt

CONSTANTS Owner,   \* the thread whose object the pool is
          Workers, \* the threads of the pool
          MaxAlone \* BOUND: nodes of a queue that is used by itself

ASSUME PoolAssumption ==
    /\ Threads = Workers \cup {Owner}
    /\ Owner \notin Workers
    /\ Values = 1..(MaxNodes - 1)

VARIABLES pool,     \* "none", "up", "closing" (done is set), "gone"
          exited,   \* workers that have left worker_thread
          future,   \* per task: what its future holds
          stack     \* per thread: the functions it is in, the innermost last

queueVars == <<node, head, tail, headMutex, tailMutex, waiters, call, got, chain>>
poolVars  == <<pool, exited, future, stack>>

\* A function that runs: its task, the tasks it has submitted and not yet
\* waited for, the one it waits for, and whether it runs others meanwhile.
Function(task) == [task |-> task, kids |-> <<>>, awaits |-> 0, helps |-> FALSE]
OwnersOwn == 0     \* the task of the function that holds the pool

Top(t) == Last(stack[t])
Busy(t) == stack[t] # <<>>
Between(t) == call[t].pc = "idle"          \* in no call of the queue
\* t runs code of a task, or the owner its own: until it enters the destructor
InBody(t) ==
    /\ Busy(t) /\ Between(t) /\ Top(t).awaits = 0
    /\ Top(t).task = OwnersOwn => pool = "up"
SetTop(t, f) == stack' = [stack EXCEPT ![t] = Append(Front(@), f)]

\* each push puts in a value of its own: the queue never looks at its values
OwnValue(c) == c.value = c.new - 1

-----------------------------------------------------------------------------
\* submit, submit_wait_result: the future first, then a push
Submit(t) ==
    /\ InBody(t)
    /\ StartPush(t)
    /\ OwnValue(call'[t])
    /\ future' = [future EXCEPT ![Len(node)] = "pending"]
    /\ SetTop(t, [Top(t) EXCEPT !.kids = Append(@, Len(node))])
    /\ UNCHANGED <<pool, exited>>

\* do_sort waits for the last task it submitted and runs others meanwhile;
\* parallel_accumulate_using_thread_pool blocks in get, for the first one first.
AwaitLast(t) ==
    /\ InBody(t)
    /\ Top(t).kids # <<>>
    /\ SetTop(t, [Top(t) EXCEPT !.awaits = Last(Top(t).kids), !.helps = TRUE,
                                !.kids = Front(@)])
    /\ UNCHANGED <<queueVars, pool, exited, future>>

Get(t) ==
    /\ InBody(t)
    /\ Top(t).task = OwnersOwn /\ Top(t).kids # <<>>
    /\ SetTop(t, [Top(t) EXCEPT !.awaits = Head(Top(t).kids), !.helps = FALSE,
                                !.kids = Tail(@)])
    /\ UNCHANGED <<queueVars, pool, exited, future>>

\* the future is ready: get returns, wait_for no longer times out
Resume(t) ==
    /\ Busy(t) /\ Between(t)
    /\ Top(t).awaits # 0 /\ future[Top(t).awaits] # "pending"
    /\ SetTop(t, [Top(t) EXCEPT !.awaits = 0])
    /\ UNCHANGED <<queueVars, pool, exited, future>>

\* wait_for (0 s) timed out: run_pending_task
RunPending(t) ==
    /\ Busy(t)
    /\ Top(t).awaits # 0 /\ Top(t).helps /\ future[Top(t).awaits] = "pending"
    /\ StartPop(t, "try_pop")
    /\ UNCHANGED poolVars

\* the loop of worker_thread, with done looked at before every round
Work(t) ==
    /\ t \in Workers \ exited
    /\ ~Busy(t)
    /\ pool = "up"
    /\ StartPop(t, "try_pop")
    /\ UNCHANGED poolVars

Leave(t) ==
    /\ t \in Workers \ exited
    /\ ~Busy(t) /\ Between(t)
    /\ pool = "closing"
    /\ exited' = exited \cup {t}
    /\ UNCHANGED <<queueVars, pool, future, stack>>

\* what try_pop gave is called at once
RunTask(t) ==
    /\ PopHead(t)
    /\ stack' = [stack EXCEPT ![t] = Append(@, Function(got'[t]))]
    /\ UNCHANGED <<pool, exited, future>>

\* a task that was pushed as it is, not as a packaged_task
BadFinish(t) ==
    /\ InBody(t)
    /\ Top(t).task # OwnersOwn /\ Top(t).kids = <<>>
    /\ stack' = [stack EXCEPT ![t] = Front(@)]
    /\ UNCHANGED <<queueVars, pool, exited, future>>

\* the task returns and sets its future; do_sort has waited for what it submitted
Finish(t) ==
    /\ InBody(t)
    /\ Top(t).task # OwnersOwn /\ Top(t).kids = <<>>
    /\ future' = [future EXCEPT ![Top(t).task] = "ready"]
    /\ stack' = [stack EXCEPT ![t] = Front(@)]
    /\ UNCHANGED <<queueVars, pool, exited>>

\* ~thread_pool sets done ...
Destroy ==
    /\ InBody(Owner) /\ Top(Owner).task = OwnersOwn
    /\ pool' = "closing"
    /\ UNCHANGED <<queueVars, exited, future, stack>>

QueueDestroyed ==
    /\ pool' = "gone"
    /\ future' = [v \in Values |->
                    IF v \in ToSet(Contents) THEN "broken" ELSE future[v]]
    /\ UNCHANGED <<queueVars, exited, stack>>

\* members are destroyed without joining
BadJoined == pool = "closing" /\ QueueDestroyed

\* ... then joiner waits for the workers, and what is still queued goes with
\* the queue
Joined == pool = "closing" /\ exited = Workers /\ QueueDestroyed

-----------------------------------------------------------------------------
PoolInit ==
    /\ Init
    /\ pool \in {"none", "up"}
    /\ exited = {}
    /\ future = [v \in Values |-> "none"]
    /\ stack = [t \in Threads |-> IF t = Owner THEN <<Function(OwnersOwn)>> ELSE <<>>]

\* a call of the queue goes on; what try_pop took is run (RunTask)
QueueStep(t) ==
    /\ PushFill(t) \/ PushLink(t) \/ PushMove(t) \/ Notify(t) \/ LockHead(t) \/ Look(t)
    /\ UNCHANGED poolVars

\* what a thread does once it has something to do, and what it may begin
Proceed(t) ==
    \/ QueueStep(t) \/ RunTask(t) \/ Resume(t) \/ RunPending(t)
    \/ Work(t) \/ Leave(t) \/ Finish(t)
    \/ Busy(t) /\ Top(t).task # OwnersOwn /\ AwaitLast(t)

Choose(t) == Submit(t) \/ AwaitLast(t) \/ Get(t)

UsedAlone ==
    /\ pool = "none"
    /\ Next
    /\ Len(node') <= MaxAlone
    /\ \A t \in Threads : call'[t].new # Null => OwnValue(call'[t])
    /\ UNCHANGED poolVars

PoolNext ==
    \/ UsedAlone
    \/ /\ pool # "none"
       /\ \/ \E t \in Threads : Proceed(t) \/ Choose(t)
          \/ Destroy \/ Joined

allVars == <<queueVars, poolVars>>

\* Every thread is scheduled again and again, and one that waits for a mutex
\* others take and leave gets it in the end.
PoolFairness ==
    /\ \A t \in Threads : WF_allVars(pool = "none" /\ Continue(t) /\ UNCHANGED poolVars)
    /\ \A t \in Threads : WF_allVars(pool # "none" /\ Proceed(t))
    /\ \A t \in Threads : SF_allVars(pool # "none" /\ LockHead(t) /\ UNCHANGED poolVars)
    /\ WF_allVars(Joined)

PoolSpec == PoolInit /\ [][PoolNext]_allVars /\ PoolFairness

-----------------------------------------------------------------------------
\* Where task v is: under way into the queue, in it, or run by a thread.
Pushed(v)  == {t \in Threads : call[t].value = v /\ call[t].pc \in {"fill", "link", "move"}}
Queued(v)  == {i \in DOMAIN Contents : Contents[i] = v}
Running(v) == {p \in Threads \X (1..MaxNodes) :
                  p[2] <= Len(stack[p[1]]) /\ stack[p[1]][p[2]].task = v}

\* No task is lost and none is run twice: while the pool exists, a task whose
\* future is open is in one place, any other in none, although threads push and
\* pop at once and run tasks within tasks (submit, worker_thread, run_pending_task).
TasksInOnePlace ==
    pool \in {"up", "closing"} => \A v \in Values :
        Cardinality(Pushed(v)) + Cardinality(Queued(v)) + Cardinality(Running(v))
            = IF future[v] = "pending" THEN 1 ELSE 0

\* The destructor lets no task go but those its owner submitted and never waited
\* for: whatever a task waits for is run first, although done is set by then.
OnlyUnawaitedDropped ==
    pool = "gone" => \A v \in Values :
        \/ future[v] \in {"none", "ready"}
        \/ future[v] = "broken" /\ v \in ToSet(stack[Owner][1].kids)

\* Nobody waits for good, though a thread that waits may have run a task that
\* waits itself; with as many tasks as MaxNodes allows the waits come to an end.
\* The destructor returns, although done stops nobody who waits (do_sort, joiner).
WaitsEnd ==
    /\ []<>(\A t \in Threads : Busy(t) => Top(t).awaits = 0)
    /\ pool = "closing" ~> pool = "gone"

=============================================================================
